---- MODULE Spec2Model ----
(***************************************************************************)
(* DeployX platform contract: GitHub Pages, Netlify, Vercel and Railway    *)
(* backends behind BasePlatform.  The model follows one platform object    *)
(* through construction, validate_credentials, prepare_deployment,         *)
(* execute_deployment, get_status and get_url, in an environment (CLI      *)
(* tools, token files, environment variables) that can change between      *)
(* calls.                                                                  *)
(*                                                                         *)
(* Encoding of Python values.  A string is a sequence of one-character     *)
(* strings, so that str.strip() is computed, not assumed.  Python's None   *)
(* is the one-element sequence NoneVal, which no string of the model       *)
(* equals.  A message is a sequence of text pieces (literals of the code   *)
(* and values interpolated into them); it is empty when every piece is.    *)
(***************************************************************************)
EXTENDS Naturals, Sequences, FiniteSets, TLC

VARIABLES
    backend,    \* which platform class the run uses
    config,     \* the configuration dictionary handed to the constructor
    cliAvail,   \* the backend's CLI tool is installed and logged in
    cliTok,     \* what the CLI tool holds as its token
    files,      \* token files of the working directory: name -> content
    envTok,     \* value of the backend's environment variable
    plat,       \* the platform object's fields
    last,       \* what the last call returned or raised (observation)
    proj,       \* the project directory as auto-creation sees it
    tree,       \* the working tree and git history a branch deployment uses
    probe,      \* position of a running _generate_suggested_name
    race        \* two deployers' working copies and the remote branch they share

dirVars == <<proj, tree, probe, race>>
envVars == <<cliAvail, cliTok, files, envTok, proj, tree, probe, race>>
vars == <<backend, config, cliAvail, cliTok, files, envTok, plat, last, proj, tree,
          probe, race>>

-----------------------------------------------------------------------------
(* Values *)

NoneVal == <<"None">>

Backends == {"github", "netlify", "vercel", "railway"}

Truthy(s) == s # NoneVal /\ s # <<>>

IsSpace(c) == c = " "

RECURSIVE LStrip(_)
LStrip(s) == IF s # <<>> /\ IsSpace(Head(s)) THEN LStrip(Tail(s)) ELSE s

RECURSIVE RStrip(_)
RStrip(s) ==
    IF s # <<>> /\ IsSpace(s[Len(s)]) THEN RStrip(SubSeq(s, 1, Len(s) - 1)) ELSE s

\* str.strip()
Strip(s) == RStrip(LStrip(s))

\* What the CLI tool can hold, what a token file can hold, what the
\* environment variable can hold.
CliValues == {NoneVal, <<>>, <<"c", " ">>}
FileValues == {NoneVal, <<" ">>, <<" ", "f", " ">>}
EnvValues == {NoneVal, <<>>, <<"e">>, <<"h">>}

\* The file platform._get_token reads.
TokenFileRead(b) ==
    CASE b = "github" -> ".deployx_token"
      [] b = "netlify" -> ".deployx_netlify_token"
      [] b = "vercel" -> ".deployx_vercel_token"
      [] OTHER -> ".deployx_railway_token"

\* The file `deployx auth setup <platform>` writes: .deployx_{platform}_token
TokenFileAuth(b) ==
    CASE b = "github" -> ".deployx_github_token"
      [] b = "netlify" -> ".deployx_netlify_token"
      [] b = "vercel" -> ".deployx_vercel_token"
      [] OTHER -> ".deployx_railway_token"

FileNames(b) == {TokenFileRead(b), TokenFileAuth(b)}

-----------------------------------------------------------------------------
(* Credential resolution *)

\* cli_integration.get_token(): gh prints the token and the code strips it;
\* the other tools keep it in a JSON file whose value is returned as it is.
CliGetToken(b, tok) ==
    IF b = "github"
    THEN IF tok = NoneVal THEN NoneVal ELSE Strip(tok)
    ELSE tok

\* token_file.read_text().strip() when the file exists, else nothing
FileGetToken(b, fs) ==
    IF fs[TokenFileRead(b)] # NoneVal THEN Strip(fs[TokenFileRead(b)]) ELSE NoneVal

GetTokenFileFirst(b, avail, ctok, fs, etok) ==
    IF Truthy(FileGetToken(b, fs)) THEN FileGetToken(b, fs)
    ELSE IF avail /\ Truthy(CliGetToken(b, ctok)) THEN CliGetToken(b, ctok)
    ELSE etok

\* <Platform>._get_token
GetToken(b, avail, ctok, fs, etok) ==
    IF avail /\ Truthy(CliGetToken(b, ctok)) THEN CliGetToken(b, ctok)
    ELSE IF Truthy(FileGetToken(b, fs)) THEN FileGetToken(b, fs)
    ELSE etok

ResolveNow == GetToken(backend, cliAvail, cliTok, files, envTok)

-----------------------------------------------------------------------------
(* Configuration and the platform object *)

NoId == ""

\* config[<backend>]: the configured resource (repo, site_id, project,
\* project_id with its service_id), use_cli, and GitHub's method.
Methods(b) == IF b = "github" THEN {"branch", "docs", "ftp"} ELSE {"branch"}

UseCliChoices(b) == IF b = "github" THEN {TRUE} ELSE BOOLEAN

EnvIdChoices(b) == IF b = "railway" THEN {NoId, "env"} ELSE {NoId}

Configs(b) ==
    [res : {NoId, "cfg"}, envId : EnvIdChoices(b), useCli : UseCliChoices(b),
     method : Methods(b)]

Unbuilt ==
    [built |-> FALSE, token |-> NoneVal, clientTok |-> NoneVal, res |-> NoId,
     svc |-> NoId, envId |-> NoId, repoObj |-> FALSE, useCli |-> TRUE,
     method |-> "branch"]

\* <Platform>.__init__: the token is resolved once, and the API client (for
\* GitHub the auto-creation client) is built around it when it is truthy.
\* Railway's service_id is configured together with the project_id.
NewPlatform(b, cfg, tok) ==
    [built |-> TRUE,
     token |-> tok,
     clientTok |-> IF Truthy(tok) THEN tok ELSE NoneVal,
     res |-> cfg.res,
     svc |-> IF b = "railway" THEN cfg.res ELSE NoId,
     envId |-> cfg.envId,
     repoObj |-> FALSE,
     useCli |-> cfg.useCli,
     method |-> cfg.method]

-----------------------------------------------------------------------------
(* Messages *)

MsgEmpty(m) == \A i \in 1..Len(m) : m[i] = ""

MsgContains(m, piece) == \E i \in 1..Len(m) : m[i] = piece

\* utils.errors.handle_auth_error(platform, detail).message: the test suite
\* requires the detail to appear in it.
HandleAuthError(b, detail) == <<"Authentication failed for ", b, ": ", detail>>

\* utils.errors.handle_github_api_error(e).message
HandleGithubApiError(code) == <<"GitHub API error: ", code>>

\* utils.errors.handle_build_error(detail).message, handle_git_error likewise
HandleBuildError(detail) == <<"Build error: ", detail>>

HandleGitError(detail) == <<"Git error: ", detail>>

-----------------------------------------------------------------------------
(* Remote answers and auto-creation outcomes *)

\* How the remote answers the credential check: accepted, accepted for a
\* user without write access to the repository (GitHub only), credential
\* rejected, server error, connection failure or timeout.
Resps(b) ==
    IF b = "github" THEN {"ok", "ok_readonly", "401", "500", "conn"}
    ELSE {"ok", "401", "500", "conn"}

\* Failures a retry may cure: server errors, connection failures, timeouts.
Transient(resp) == resp \in {"500", "conn"}

\* How auto-creation ends: markers say a resource exists; the prompt is
\* cancelled; the creation request is refused; the resource is created under
\* the name of the project folder (the suggestion was accepted and was the
\* folder's name); it is created under another name (the user typed one, or
\* the folder's name had to be cleaned: followed for Vercel, whose platform
\* object keeps a name and not the returned identifier); it is created but
\* its identifier (site id, project URL, environment id) is not obtained.
AutoOutcomes(b) ==
    CASE b = "github" -> {"skip", "cancel", "fail", "made"}
      [] b = "railway" -> {"skip", "cancel", "fail", "made", "made_noenv"}
      [] b = "vercel" -> {"skip", "cancel", "fail", "made", "made_renamed", "made_noid"}
      [] OTHER -> {"skip", "cancel", "fail", "made", "made_noid"}

NoAuto ==
    [ran |-> FALSE, ok |-> TRUE, msg |-> <<>>, id |-> NoId, name |-> NoId,
     created |-> FALSE]

\* auto_create_site / auto_create_project / auto_create_repository /
\* auto_create_complete_setup: (success, message, identifier), and the name
\* the resource was created under.  The identifier is the site id, the
\* repository's full name, the project id, and for Vercel the project URL.
AutoCreate(b, auto) ==
    CASE auto = "skip" ->
           [ran |-> TRUE, ok |-> TRUE, msg |-> <<b, " already configured">>,
            id |-> NoId, name |-> NoId, created |-> FALSE]
      [] auto = "cancel" ->
           [ran |-> TRUE, ok |-> FALSE, msg |-> <<"Creation cancelled">>,
            id |-> NoId, name |-> NoId, created |-> FALSE]
      [] auto = "fail" ->
           [ran |-> TRUE, ok |-> FALSE, msg |-> <<"Failed to create: ", "name taken">>,
            id |-> NoId, name |-> NoId, created |-> TRUE]
      [] auto = "made_noid" ->
           [ran |-> TRUE, ok |-> TRUE, msg |-> <<"Created: ", "name">>,
            id |-> NoId, name |-> "cwd", created |-> TRUE]
      [] auto = "made_renamed" ->
           [ran |-> TRUE, ok |-> TRUE, msg |-> <<"Created: ", "name">>,
            id |-> "new", name |-> "shop", created |-> TRUE]
      [] OTHER ->
           [ran |-> TRUE, ok |-> TRUE, msg |-> <<"Created: ", "name">>,
            id |-> "new", name |-> "cwd", created |-> TRUE]

\* One run of a method body: the object afterwards, the returned pair or the
\* exception raised, and what was sent to the remote.
Ret(p, ok, msg, reqs, reqTok, created) ==
    [p |-> p, exc |-> "none", ok |-> ok, msg |-> msg, reqs |-> reqs,
     reqTok |-> reqTok, created |-> created]

Raise(p, kind, detail, reqs, reqTok, created) ==
    [p |-> p, exc |-> kind, ok |-> FALSE, msg |-> <<detail>>, reqs |-> reqs,
     reqTok |-> reqTok, created |-> created]

ValidateTokenRaising(b, resp) ==
    CASE resp = "ok" -> [ok |-> TRUE, exc |-> "none", msg |-> <<"Authenticated as ", "user">>]
      [] OTHER -> [ok |-> FALSE, exc |-> "transient", msg |-> <<"HTTP error: ", resp>>]

\* api_integration.validate_token(): every outcome, a raised connection error
\* included, comes back as a (valid, message) pair.
ValidateToken(b, resp) ==
    CASE resp = "ok" -> [ok |-> TRUE, exc |-> "none", msg |-> <<"Authenticated as ", "user">>]
      [] resp = "401" ->
           [ok |-> FALSE, exc |-> "none",
            msg |-> IF b = "railway" THEN <<"Authentication failed: ", "Not Authorized">>
                    ELSE <<"Invalid token">>]
      [] resp = "conn" ->
           [ok |-> FALSE, exc |-> "none", msg |-> <<"Connection error: ", "refused">>]
      [] OTHER -> [ok |-> FALSE, exc |-> "none", msg |-> <<"API error: ", resp>>]

-----------------------------------------------------------------------------
(* validate_credentials, the undecorated bodies *)

\* The statement self.logger.info(...) that follows a successful
\* auto-creation: no platform class and not BasePlatform defines logger.
\* GitHubPlatform also inherits PlatformEnvInterface, so for it both outcomes
\* are considered (hasLogger).
LoggerRaises(b, hasLogger) == b # "github" \/ ~hasLogger

Loggers(b) == IF b = "github" THEN BOOLEAN ELSE {FALSE}

NetlifyValidateNoGuard(b, p, fresh, resp, auto) ==
    LET p0 == [p EXCEPT !.token = fresh]
        p1 == IF p0.clientTok = NoneVal THEN [p0 EXCEPT !.clientTok = fresh] ELSE p0
        v == ValidateToken(b, resp)
        a == IF p1.res = NoId THEN AutoCreate(b, auto) ELSE NoAuto
    IN  IF v.exc # "none" THEN Raise(p1, v.exc, "request", 1, p1.clientTok, FALSE)
        ELSE IF ~v.ok THEN Ret(p1, FALSE, v.msg, 1, p1.clientTok, FALSE)
        ELSE IF a.ok /\ a.id # NoId
             THEN Raise([p1 EXCEPT !.res = a.id], "other", "AttributeError: logger",
                        1, p1.clientTok, a.created)
        ELSE IF ~a.ok
             THEN Ret(p1, FALSE, <<"Site creation failed: ">> \o a.msg, 1,
                      p1.clientTok, a.created)
        ELSE Ret(p1, TRUE, v.msg, 1, p1.clientTok, a.created)

\* NetlifyPlatform.validate_credentials
NetlifyValidate(b, p, fresh, resp, auto) ==
    LET p0 == [p EXCEPT !.token = fresh]
        p1 == IF p0.clientTok = NoneVal THEN [p0 EXCEPT !.clientTok = fresh] ELSE p0
        v == ValidateToken(b, resp)
        a == IF p1.res = NoId THEN AutoCreate(b, auto) ELSE NoAuto
    IN  IF ~Truthy(fresh)
        THEN Ret(p0, FALSE, HandleAuthError(b, "No token provided"), 0, NoneVal, FALSE)
        ELSE IF v.exc # "none" THEN Raise(p1, v.exc, "request", 1, p1.clientTok, FALSE)
        ELSE IF ~v.ok THEN Ret(p1, FALSE, v.msg, 1, p1.clientTok, FALSE)
        ELSE IF a.ok /\ a.id # NoId
             THEN Raise([p1 EXCEPT !.res = a.id], "other", "AttributeError: logger",
                        1, p1.clientTok, a.created)
        ELSE IF ~a.ok
             THEN Ret(p1, FALSE, <<"Site creation failed: ">> \o a.msg, 1,
                      p1.clientTok, a.created)
        ELSE Ret(p1, TRUE, v.msg, 1, p1.clientTok, a.created)

\* RailwayPlatform.validate_credentials
RailwayValidate(b, p, fresh, resp, auto) ==
    LET p0 == [p EXCEPT !.token = fresh]
        p1 == IF p0.clientTok = NoneVal THEN [p0 EXCEPT !.clientTok = fresh] ELSE p0
        v == ValidateToken(b, resp)
        a == IF p1.res = NoId THEN AutoCreate(b, auto) ELSE NoAuto
        made == [p1 EXCEPT !.res = a.id, !.svc = "new",
                           !.envId = IF auto = "made_noenv" THEN NoId ELSE "env"]
    IN  IF ~Truthy(fresh)
        THEN Ret(p0, FALSE, HandleAuthError(b, "No token provided"), 0, NoneVal, FALSE)
        ELSE IF v.exc # "none" THEN Raise(p1, v.exc, "request", 1, p1.clientTok, FALSE)
        ELSE IF ~v.ok THEN Ret(p1, FALSE, v.msg, 1, p1.clientTok, FALSE)
        ELSE IF a.ok /\ a.id # NoId
             THEN Raise(made, "other", "AttributeError: logger", 1, p1.clientTok,
                        a.created)
        ELSE IF ~a.ok
             THEN Ret(p1, FALSE, <<"Setup creation failed: ">> \o a.msg, 1,
                      p1.clientTok, a.created)
        ELSE Ret(p1, TRUE, v.msg, 1, p1.clientTok, a.created)

\* api_integration.list_projects() of Vercel: (success, projects, message)
ListProjects(resp) ==
    CASE resp = "ok" -> [ok |-> TRUE, msg |-> <<"Projects retrieved successfully">>]
      [] resp = "conn" -> [ok |-> FALSE, msg |-> <<"API error: ", "refused">>]
      [] OTHER -> [ok |-> FALSE, msg |-> <<"Failed to list projects">>]

\* VercelPlatform.validate_credentials: the project is created before the
\* token is checked.
VercelValidate(b, p, fresh, resp, auto) ==
    LET p0 == [p EXCEPT !.token = fresh]
        p1 == IF p0.clientTok = NoneVal THEN [p0 EXCEPT !.clientTok = fresh] ELSE p0
        a == IF p1.res = NoId THEN AutoCreate(b, auto) ELSE NoAuto
        v == ListProjects(resp)
    IN  IF ~Truthy(fresh)
        THEN Ret(p0, FALSE, HandleAuthError(b, "No token provided"), 0, NoneVal, FALSE)
        ELSE IF a.ok /\ a.id # NoId
             THEN Raise([p1 EXCEPT !.res = "cwd"], "other", "AttributeError: logger",
                        0, NoneVal, a.created)
        ELSE IF ~a.ok
             THEN Ret(p1, FALSE, <<"Project creation failed: ">> \o a.msg, 0,
                      NoneVal, a.created)
        ELSE IF v.ok
             THEN Ret(p1, TRUE, <<"Vercel credentials valid - ", "n", " projects accessible">>,
                      1, p1.clientTok, a.created)
        ELSE Ret(p1, FALSE, <<"Token validation failed: ">> \o v.msg, 1,
                 p1.clientTok, a.created)

\* GitHubPlatform.validate_credentials: self.token is the one captured by
\* __init__; the repository is created before the token is checked.
GithubValidate(b, p, resp, auto, hasLogger) ==
    LET a == IF p.clientTok # NoneVal /\ p.res = NoId THEN AutoCreate(b, auto) ELSE NoAuto
        p1 == IF a.ok /\ a.id # NoId THEN [p EXCEPT !.res = a.id] ELSE p
        p2 == [p1 EXCEPT !.repoObj = TRUE]
    IN  IF ~Truthy(p.token)
        THEN Ret(p, FALSE, HandleAuthError(b, "No token provided"), 0, NoneVal, FALSE)
        ELSE IF a.ok /\ a.id # NoId /\ LoggerRaises(b, hasLogger)
             THEN Raise(p1, "other", "AttributeError: logger", 0, NoneVal, a.created)
        ELSE IF p1.res = NoId
             THEN Ret(p1, FALSE, <<"Repository name not configured">>, 0, NoneVal,
                      a.created)
        ELSE CASE resp = "ok" ->
                    Ret(p2, TRUE, <<"GitHub credentials valid for user: ", "user">>,
                        1, p1.token, a.created)
               [] resp = "ok_readonly" ->
                    Ret(p2, FALSE,
                        HandleAuthError(b, "Insufficient repository permissions"),
                        1, p1.token, a.created)
               [] resp = "conn" ->
                    Ret(p1, FALSE, HandleAuthError(b, "Network error: refused"),
                        1, p1.token, a.created)
               [] OTHER ->
                    Ret(p1, FALSE, HandleGithubApiError(resp), 1, p1.token, a.created)

\* The body validate_credentials runs for backend b.
ValidateOnce(b, p, fresh, resp, auto, hasLogger) ==
    CASE b = "github" -> GithubValidate(b, p, resp, auto, hasLogger)
      [] b = "netlify" -> NetlifyValidate(b, p, fresh, resp, auto)
      [] b = "vercel" -> VercelValidate(b, p, fresh, resp, auto)
      [] OTHER -> RailwayValidate(b, p, fresh, resp, auto)

-----------------------------------------------------------------------------
(* The retry decorator *)

MaxRetries == 3

\* What the remote does during one call: nFail transient failures of one
\* kind, then the final answer.
Finals(b) == {r \in Resps(b) : ~Transient(r)}

Scripts(b) ==
    {s \in [nFail : 0..MaxRetries, kind : {r \in Resps(b) : Transient(r)},
             final : Finals(b)] :
        /\ s.nFail = 0 => s.kind = "conn"
        /\ s.nFail = MaxRetries => s.final = "ok"}

NoScript == [nFail |-> 0, kind |-> "conn", final |-> "ok"]

RemoteAnswer(script, k) == IF k <= script.nFail THEN script.kind ELSE script.final

\* utils.errors.retry_with_backoff(max_retries=3) around validate_credentials:
\* a raised transient error is retried until max_retries attempts are used,
\* then reported as exhausted; any other raised error becomes a failure
\* value; a returned pair is passed through.
RECURSIVE RetryWithBackoff(_, _, _, _, _, _, _)
RetryWithBackoff(b, p, fresh, script, auto, hasLogger, k) ==
    LET r == ValidateOnce(b, p, fresh, RemoteAnswer(script, k), auto, hasLogger)
        rest == RetryWithBackoff(b, r.p, fresh, script, auto, hasLogger, k + 1)
    IN  IF r.exc = "transient" /\ k < MaxRetries
        THEN [rest EXCEPT !.reqs = @ + r.reqs, !.created = @ \/ r.created]
        ELSE IF r.exc = "transient"
             THEN [r EXCEPT !.exc = "none", !.ok = FALSE,
                            !.msg = <<"Retries exhausted: ">> \o @]
                  @@ [attempts |-> k]
        ELSE IF r.exc = "other"
             THEN [r EXCEPT !.exc = "none", !.ok = FALSE,
                            !.msg = <<"Unexpected error: ">> \o @]
                  @@ [attempts |-> k]
        ELSE r @@ [attempts |-> k]

\* <Platform>.validate_credentials as callers see it
ValidateCredentials(b, p, fresh, script, auto, hasLogger) ==
    RetryWithBackoff(b, p, fresh, script, auto, hasLogger, 1)

-----------------------------------------------------------------------------
(* prepare_deployment *)

NoUrl == "<none>"

\* What Path(project_path) / output_dir is on disk: a directory, nothing, or
\* something under a directory that may not be searched (stat fails with
\* EACCES and Path.exists() re-raises it).
BuildStates == {"present", "missing", "denied"}

\* The remote answers every request of one call the same way.
SteadyScripts(b) == {s \in Scripts(b) : s.nFail \in {0, MaxRetries}}

Returned(p, ok, msg) == [p |-> p, raised |-> FALSE, ok |-> ok, msg |-> msg]

Raised(p, detail) == [p |-> p, raised |-> TRUE, ok |-> FALSE, msg |-> <<detail>>]

\* <Platform>.prepare_deployment; v is what validate_credentials returned.
PrepareDeployment(b, v, build) ==
    CASE ~v.ok -> Returned(v.p, FALSE, v.msg)
      [] v.ok /\ b = "github" ->
           IF ~v.p.repoObj THEN Returned(v.p, FALSE, <<"Repository not accessible">>)
           ELSE Returned(v.p, TRUE, <<"Ready for deployment">>)
      [] v.ok /\ b = "railway" ->
           IF v.p.res = NoId THEN Returned(v.p, FALSE, <<"No Railway project configured">>)
           ELSE IF v.p.svc = NoId
                THEN Returned(v.p, FALSE, <<"No Railway service configured">>)
           ELSE Returned(v.p, TRUE, <<"Ready for deployment">>)
      [] OTHER ->
           IF build = "denied" THEN Raised(v.p, "PermissionError")
           ELSE IF build = "missing"
                THEN Returned(v.p, FALSE, <<"Build output directory not found: ", "path">>)
           ELSE IF b = "netlify" /\ v.p.res = NoId
                THEN Returned(v.p, FALSE, <<"No Netlify site configured">>)
           ELSE Returned(v.p, TRUE, <<"Ready for deployment">>)

-----------------------------------------------------------------------------
(* execute_deployment *)

\* How a CLI process or a deployment request ends: success with or without
\* a URL in the output, refusal with an error text, refusal with an empty
\* error text, or an exception (connection failure, missing executable).
\* For Netlify the user may also interrupt it (Ctrl-C).
DeployOutcomes(b) ==
    CASE b = "github" -> {"ok_url"}
      [] b = "netlify" ->
           {"ok_url", "ok_nourl", "refused", "refused_blank", "conn", "interrupt"}
      [] OTHER -> {"ok_url", "ok_nourl", "refused", "refused_blank", "conn"}

\* How _create_deployment_zip ends: the archive is written, or a file of the
\* build output cannot be read or the disk is full.
ZipOutcomes(b) == IF b = "netlify" THEN {"built", "unreadable"} ELSE {"built"}

\* How the git commands of a GitHub Pages deployment end: the push updates
\* the remote branch; there is nothing to commit; the push fails as a whole
\* (no connection, no credentials) and origin.push raises; the remote
\* rejects the pushed head (it has diverged, or the branch is protected),
\* which origin.push reports in the flags of the PushInfo it returns and
\* does not raise; another git command fails.
GitOutcomes(b) ==
    IF b = "github" THEN {"pushed", "nothing", "push_failed", "rejected", "git_error"}
    ELSE {"pushed"}

ErrText(out) == IF out = "refused_blank" THEN "" ELSE "quota exceeded"

LiveUrl(out) == IF out = "ok_url" THEN "https://live" ELSE NoUrl

\* A DeploymentResult, with whether the call ended in an exception instead,
\* whether a temporary bundle file is left on disk, and the steps the call
\* went through to produce it ("link", "cli", "api"), in order.
Result(ok, msg, url) ==
    [ok |-> ok, msg |-> msg, url |-> url, raised |-> FALSE, bundle |-> FALSE,
     tried |-> <<>>]

Via(steps, r) == [r EXCEPT !.tried = steps \o @]

\* KeyboardInterrupt is no Exception: no handler of the deployment catches it.
Interrupted == [Result(FALSE, <<"KeyboardInterrupt">>, NoUrl) EXCEPT !.raised = TRUE]

\* The repository name behind a configured or created identifier, as a text
\* cut at its punctuation: "user/repo", the user site "user/user.github.io",
\* and a name without owner, "repo".
RepoName(res) ==
    CASE res = NoId -> <<>>
      [] res = "site" -> <<"user", "/", "user", ".github.io">>
      [] res = "bare" -> <<"repo">>
      [] OTHER -> <<"user", "/", "repo">>

\* str.split(sep)
RECURSIVE Split(_, _)
Split(text, sep) ==
    IF \A k \in 1..Len(text) : text[k] # sep THEN <<text>>
    ELSE LET i == CHOOSE k \in 1..Len(text) :
                      text[k] = sep /\ \A j \in 1..(k - 1) : text[j] # sep
         IN  <<SubSeq(text, 1, i - 1)>> \o Split(SubSeq(text, i + 1, Len(text)), sep)

\* The f-strings of the pages URL as one string.
UrlString(pieces) ==
    CASE pieces = <<"https://", "user", ".github.io">> -> "https://user.github.io"
      [] pieces = <<"https://", "user", ".github.io/", "repo">> ->
           "https://user.github.io/repo"
      [] OTHER -> "https://other"

\* The URL of the pages of repository `name`, Absent when there is no name
\* or it is not of the form owner/repo.
PagesUrl(name, Absent) ==
    LET parts == Split(name, "/")
    IN  IF name = <<>> THEN Absent
        ELSE IF Len(parts) # 2 THEN Absent
        ELSE IF parts[2] = parts[1] \o <<".github.io">>
             THEN UrlString(<<"https://">> \o parts[1] \o <<".github.io">>)
        ELSE UrlString(<<"https://">> \o parts[1] \o <<".github.io/">> \o parts[2])

GeneratePagesUrlOfOwner(res) ==
    LET parts == Split(RepoName(res), "/")
    IN  IF RepoName(res) = <<>> \/ Len(parts) # 2 THEN ""
        ELSE UrlString(<<"https://">> \o parts[1] \o <<".github.io">>)

\* GitHubDeployment._generate_pages_url
GeneratePagesUrl(res) == PagesUrl(RepoName(res), "")

\* GitHubDeployment.deploy_to_branch
DeployToBranch(p, build, git) ==
    CASE build = "missing" ->
           Result(FALSE, HandleBuildError("Build output directory not found"), NoUrl)
      [] build = "denied" ->
           Result(FALSE, HandleGitError("Deployment failed: PermissionError"), NoUrl)
      [] build = "present" /\ git = "nothing" ->
           Result(TRUE, <<"No changes to deploy">>, GeneratePagesUrl(p.res))
      [] build = "present" /\ git = "push_failed" ->
           Via(<<"push_force">>,
               Result(FALSE, HandleGitError("Failed to push to remote"), NoUrl))
      [] build = "present" /\ git = "git_error" ->
           Result(FALSE, HandleGitError("Deployment failed: git"), NoUrl)
      [] OTHER ->
           Via(<<"push_force">>,
               Result(TRUE,
                      <<"Successfully deployed to GitHub Pages (branch: ", "gh-pages", ")">>,
                      GeneratePagesUrl(p.res)))

\* GitHubDeployment.deploy_to_docs_folder: a commit with nothing to commit
\* and a push that raises both end in the generic handler; the result of
\* origin.push() is not looked at.
DeployToDocsFolder(p, build, git) ==
    CASE build = "missing" ->
           Result(FALSE, HandleBuildError("Build output directory not found"), NoUrl)
      [] build = "present" /\ git \in {"pushed", "rejected"} ->
           Via(<<"push">>,
               Result(TRUE, <<"Successfully deployed to GitHub Pages (docs folder)">>,
                      GeneratePagesUrl(p.res)))
      [] build = "present" /\ git = "push_failed" ->
           Via(<<"push">>, Result(FALSE, HandleGitError("Deployment failed: git"), NoUrl))
      [] OTHER -> Result(FALSE, HandleGitError("Deployment failed: git"), NoUrl)

\* What subprocess.run returns for the deploy command: the exit code and
\* the captured output, or no result when the process cannot be started or
\* is interrupted.
NoProcess == [ran |-> FALSE, returncode |-> 0, stdout |-> <<>>, stderr |-> ""]

RunProcess(out) ==
    CASE out = "ok_url" ->
           [ran |-> TRUE, returncode |-> 0,
            stdout |-> <<"Deploying", "Website URL: https://live">>, stderr |-> ""]
      [] out = "ok_nourl" ->
           [ran |-> TRUE, returncode |-> 0, stdout |-> <<"Deploying", "Done">>,
            stderr |-> ""]
      [] out \in {"refused", "refused_blank"} ->
           [ran |-> TRUE, returncode |-> 1, stdout |-> <<"Deploying">>,
            stderr |-> ErrText(out)]
      [] OTHER -> NoProcess

\* The first line of stdout that carries the site's URL, stripped.
ExtractUrl(stdout) ==
    IF \E i \in 1..Len(stdout) : stdout[i] = "Website URL: https://live"
    THEN "https://live"
    ELSE NoUrl

CliDeployNeedsUrl(out) ==
    LET r == RunProcess(out)
    IN  CASE out = "interrupt" -> Via(<<"cli">>, Interrupted)
          [] ~r.ran ->
               Via(<<"cli">>, Result(FALSE, <<"Deployment failed: ", "exception">>, NoUrl))
          [] r.returncode = 0 /\ ExtractUrl(r.stdout) # NoUrl ->
               Via(<<"cli">>,
                   Result(TRUE, <<"Deployment successful">>, ExtractUrl(r.stdout)))
          [] OTHER ->
               Via(<<"cli">>, Result(FALSE, <<"Deployment failed: ", r.stderr>>, NoUrl))

\* cli_integration.deploy_site / deploy_project
CliDeploy(out) ==
    LET r == RunProcess(out)
    IN  CASE out = "interrupt" -> Via(<<"cli">>, Interrupted)
          [] ~r.ran ->
               Via(<<"cli">>, Result(FALSE, <<"Deployment failed: ", "exception">>, NoUrl))
          [] r.returncode = 0 ->
               Via(<<"cli">>,
                   Result(TRUE, <<"Deployment successful">>, ExtractUrl(r.stdout)))
          [] OTHER ->
               Via(<<"cli">>, Result(FALSE, <<"Deployment failed: ", r.stderr>>, NoUrl))

\* _deploy_via_cli of Netlify and Railway: link the configured resource,
\* then deploy.  Vercel's does not link.
DeployViaCli(b, p, linkOk, out) ==
    IF b # "vercel" /\ p.res # NoId
    THEN IF ~linkOk
         THEN Via(<<"link">>,
                  Result(FALSE, <<"Failed to link: ", "Failed to link: ", "stderr">>,
                         NoUrl))
         ELSE Via(<<"link">>, CliDeploy(out))
    ELSE CliDeploy(out)

\* NetlifyAPIIntegration.deploy_site with _create_deployment_zip: the
\* temporary file is created, the archive written into it, and the upload
\* runs in a try whose finally removes the file.  On a refusal the message
\* is the "message" field of the response body as it is.
NetlifyDeploySite(build, zip, out) ==
    CASE build = "missing" -> Result(FALSE, <<"Build directory not found: ", "path">>, NoUrl)
      [] build = "denied" -> Result(FALSE, <<"Deployment error: ", "PermissionError">>, NoUrl)
      [] build = "present" /\ zip = "unreadable" ->
           [Result(FALSE, <<"Deployment error: ", "PermissionError">>, NoUrl)
               EXCEPT !.bundle = TRUE]
      [] build = "present" /\ zip = "built" /\ out = "interrupt" -> Interrupted
      [] build = "present" /\ zip = "built" /\ out \in {"ok_url", "ok_nourl"} ->
           Result(TRUE, <<"Deployment successful">>, LiveUrl(out))
      [] build = "present" /\ zip = "built" /\ out = "conn" ->
           Result(FALSE, <<"Deployment error: ", "refused">>, NoUrl)
      [] OTHER -> Result(FALSE, <<ErrText(out)>>, NoUrl)

\* VercelPlatform._deploy_via_api: upload_files, then create_deployment
VercelDeployViaApi(build, upOk, out) ==
    CASE build = "missing" ->
           Result(FALSE, <<"File upload failed: ", "Build directory not found: ", "path">>,
                  NoUrl)
      [] build = "denied" ->
           Result(FALSE, <<"File upload failed: ", "Upload error: ", "PermissionError">>,
                  NoUrl)
      [] build = "present" /\ ~upOk ->
           Result(FALSE, <<"File upload failed: ", ErrText(out)>>, NoUrl)
      [] build = "present" /\ upOk /\ out \in {"ok_url", "ok_nourl"} ->
           Result(TRUE, <<"Deployment created successfully">>, LiveUrl(out))
      [] build = "present" /\ upOk /\ out = "conn" ->
           Result(FALSE, <<"Deployment error: ", "refused">>, NoUrl)
      [] OTHER -> Result(FALSE, <<ErrText(out)>>, NoUrl)

RailwayProjectUrl(res) == "https://railway.app/project/id"

\* RailwayPlatform._deploy_via_api with RailwayAPIIntegration.create_deployment
RailwayDeployViaApi(p, out) ==
    CASE out \in {"ok_url", "ok_nourl"} ->
           Result(TRUE, <<"Deployment created successfully">>,
                  IF p.res # NoId THEN RailwayProjectUrl(p.res) ELSE NoUrl)
      [] out = "conn" -> Result(FALSE, <<"Deployment error: ", "refused">>, NoUrl)
      [] OTHER -> Result(FALSE, <<"Deployment failed: ", ErrText(out)>>, NoUrl)

ExecuteDeploymentFallingBack(b, p, avail, build, zip, linkOk, upOk, out, git) ==
    CASE b = "github" ->
           IF p.method = "branch" THEN DeployToBranch(p, build, git)
           ELSE IF p.method = "docs" THEN DeployToDocsFolder(p, build, git)
           ELSE Result(FALSE, <<"Unknown deployment method: ", p.method>>, NoUrl)
      [] b = "netlify" ->
           IF p.useCli /\ avail /\ DeployViaCli(b, p, linkOk, out).ok
           THEN DeployViaCli(b, p, linkOk, out)
           ELSE IF p.clientTok # NoneVal /\ p.res # NoId
                THEN Via(IF p.useCli /\ avail
                         THEN DeployViaCli(b, p, linkOk, out).tried \o <<"api">>
                         ELSE <<"api">>,
                         NetlifyDeploySite(build, zip, out))
           ELSE Result(FALSE, <<"No deployment method available",
                                " or site not configured">>, NoUrl)
      [] b = "vercel" ->
           IF p.useCli /\ avail THEN DeployViaCli(b, p, linkOk, out)
           ELSE IF p.clientTok # NoneVal
                THEN Via(<<"api">>, VercelDeployViaApi(build, upOk, out))
           ELSE Result(FALSE, <<"No deployment method available">>, NoUrl)
      [] OTHER ->
           IF p.useCli /\ avail THEN DeployViaCli(b, p, linkOk, out)
           ELSE IF p.clientTok # NoneVal /\ p.svc # NoId /\ p.envId # NoId
                THEN Via(<<"api">>, RailwayDeployViaApi(p, out))
           ELSE Result(FALSE, <<"No deployment method available", " or ",
                                "incomplete setup">>, NoUrl)

\* <Platform>.execute_deployment
ExecuteDeployment(b, p, avail, build, zip, linkOk, upOk, out, git) ==
    CASE b = "github" ->
           IF p.method = "branch" THEN DeployToBranch(p, build, git)
           ELSE IF p.method = "docs" THEN DeployToDocsFolder(p, build, git)
           ELSE Result(FALSE, <<"Unknown deployment method: ", p.method>>, NoUrl)
      [] b = "netlify" ->
           IF p.useCli /\ avail THEN DeployViaCli(b, p, linkOk, out)
           ELSE IF p.clientTok # NoneVal /\ p.res # NoId
                THEN Via(<<"api">>, NetlifyDeploySite(build, zip, out))
           ELSE Result(FALSE, <<"No deployment method available",
                                " or site not configured">>, NoUrl)
      [] b = "vercel" ->
           IF p.useCli /\ avail THEN DeployViaCli(b, p, linkOk, out)
           ELSE IF p.clientTok # NoneVal
                THEN Via(<<"api">>, VercelDeployViaApi(build, upOk, out))
           ELSE Result(FALSE, <<"No deployment method available">>, NoUrl)
      [] OTHER ->
           IF p.useCli /\ avail THEN DeployViaCli(b, p, linkOk, out)
           ELSE IF p.clientTok # NoneVal /\ p.svc # NoId /\ p.envId # NoId
                THEN Via(<<"api">>, RailwayDeployViaApi(p, out))
           ELSE Result(FALSE, <<"No deployment method available", " or ",
                                "incomplete setup">>, NoUrl)

-----------------------------------------------------------------------------
(* get_status and get_url *)

\* What the remote says when asked for the deployment: a raw status text,
\* no deployment at all ("absent"), or a failed request ("fail").  Netlify's
\* answer may also lack the state field ("nokey").
StatusAnswers(b) ==
    CASE b = "github" -> {"built", "building", "weird-state", "absent", "fail"}
      [] b = "netlify" ->
           {"ready", "building", "error", "weird-state", "nokey", "absent", "fail"}
      [] b = "railway" -> {"found", "fail"}
      [] OTHER -> {"found"}

Status(p, status, msg, url, raw) ==
    [p |-> p, status |-> status, msg |-> msg, url |-> url, raw |-> raw]

NoRaw == ""

\* NetlifyAPIIntegration.get_deployment_status: (success, status, url)
NetlifyApiStatus(ans) ==
    CASE ans = "fail" -> [ok |-> FALSE, status |-> "error", url |-> NoUrl]
      [] ans = "absent" -> [ok |-> TRUE, status |-> "no_deploys", url |-> NoUrl]
      [] ans = "nokey" -> [ok |-> TRUE, status |-> "unknown", url |-> "https://live"]
      [] OTHER -> [ok |-> TRUE, status |-> ans, url |-> "https://live"]

\* status_map.get(status, status) of NetlifyPlatform.get_deployment_status
NetlifyStatusMap(status) ==
    CASE status = "ready" -> "deployed"
      [] status = "building" -> "building"
      [] status = "error" -> "error"
      [] status = "no_deploys" -> "not_deployed"
      [] OTHER -> status

\* NetlifyPlatform.get_deployment_status
NetlifyStatus(p, ans) ==
    LET a == NetlifyApiStatus(ans)
    IN  IF p.res # NoId /\ p.clientTok # NoneVal
        THEN IF a.ok
             THEN Status(p, NetlifyStatusMap(a.status),
                         <<"Netlify deployment: ", a.status>>, a.url,
                         IF ans \in {"absent", "nokey"} THEN NoRaw ELSE ans)
             ELSE Status(p, "error", <<"Failed to get deployment status">>, NoUrl, NoRaw)
        ELSE Status(p, "not_deployed", <<"No Netlify site configured">>, NoUrl, NoRaw)

\* GitHubPlatform.get_deployment_status; v is what validate_credentials
\* returned when the repository object was still missing.
GithubStatus(p, v, ans) ==
    LET q == IF p.repoObj THEN p ELSE v.p
    IN  IF ~p.repoObj /\ ~v.ok
        THEN Status(q, "error", <<"Invalid credentials">>, NoUrl, NoRaw)
        ELSE CASE ans = "absent" ->
                    Status(q, "not_deployed", <<"GitHub Pages not enabled">>, NoUrl, NoRaw)
               [] ans = "fail" ->
                    Status(q, "error", <<"Failed to get deployment status: ", "500">>,
                           NoUrl, NoRaw)
               [] OTHER ->
                    Status(q, IF ans = "built" THEN "deployed" ELSE "building",
                           <<"GitHub Pages status: ", ans>>, "https://user.github.io/repo",
                           ans)

\* VercelPlatform.get_deployment_status
VercelStatus(p) ==
    IF p.res # NoId
    THEN Status(p, "deployed", <<"Vercel project: ", p.res>>, "https://project.vercel.app",
                NoRaw)
    ELSE Status(p, "not_deployed", <<"No Vercel project configured">>, NoUrl, NoRaw)

\* RailwayPlatform.get_deployment_status
RailwayStatus(p, ans) ==
    IF p.res # NoId /\ p.clientTok # NoneVal
    THEN IF ans = "found"
         THEN Status(p, "deployed", <<"Railway project: ", "name">>,
                     RailwayProjectUrl(p.res), NoRaw)
         ELSE Status(p, "error", <<"Failed to get project info: ", "Project not found">>,
                     NoUrl, NoRaw)
    ELSE Status(p, "not_deployed", <<"No Railway project configured">>, NoUrl, NoRaw)

\* <Platform>.get_status
GetStatus(b, p, v, ans) ==
    CASE b = "github" -> GithubStatus(p, v, ans)
      [] b = "netlify" -> NetlifyStatus(p, ans)
      [] b = "vercel" -> VercelStatus(p)
      [] OTHER -> RailwayStatus(p, ans)

\* <Platform>.get_url; Netlify asks the remote for the site (get_site_info).
GetUrl(b, p, ans, out) ==
    CASE b = "github" -> PagesUrl(RepoName(p.res), NoUrl)
      [] b = "netlify" ->
           IF p.res # NoId /\ p.clientTok # NoneVal /\ ans # "fail" THEN LiveUrl(out)
           ELSE NoUrl
      [] b = "vercel" -> IF p.res # NoId THEN "https://project.vercel.app" ELSE NoUrl
      [] OTHER -> IF p.res # NoId THEN RailwayProjectUrl(p.res) ELSE NoUrl

-----------------------------------------------------------------------------
(* The project directory and the auto-provisioning decision *)

\* Python's `piece in text` on a text cut into pieces.
In(piece, text) == \E i \in 1..Len(text) : text[i] = piece

\* A git remote: its name, and the host and path of its URL.  Texts are cut
\* so that the substring tests of the code are tests on pieces:
\* "github.company.com" is "github.com" followed by "pany.com", and
\* "original" is "origin" followed by "al".
Remote(name, host, path) == [name |-> name, host |-> host, path |-> path]

OriginGithub == Remote(<<"origin">>, <<"github.com">>, <<"/user/app.git">>)

OriginGitlab == Remote(<<"origin">>, <<"gitlab.com">>, <<"/user/app.git">>)

OriginEnterprise ==
    Remote(<<"origin">>, <<"github.com", "pany.com">>, <<"/team/app.git">>)

UpstreamOriginal ==
    Remote(<<"upstream">>, <<"gitlab.com">>, <<"/", "origin", "al/app.git">>)

Origins == {OriginGithub, OriginGitlab, OriginEnterprise}

\* The remotes a repository can have: at most one is named origin.
RemoteSets ==
    {rs \in SUBSET (Origins \cup {UpstreamOriginal}) :
        Cardinality(rs \cap Origins) <= 1}

RemoteUrl(r) == r.host \o r.path

\* The project directory: whether it is a git repository and with which
\* remotes; whether the backend's link-marker directory (.netlify, .vercel,
\* .railway) and its config file (netlify.toml, vercel.json, railway.json)
\* exist.
ProjectDir(isRepo, remotes, markerDir, configFile) ==
    [isRepo |-> isRepo, remotes |-> remotes, markerDir |-> markerDir,
     configFile |-> configFile]

EmptyDir == ProjectDir(FALSE, {}, FALSE, FALSE)

ProjectDirs(b) ==
    IF b = "github"
    THEN {ProjectDir(FALSE, {}, FALSE, FALSE)}
         \cup {ProjectDir(TRUE, rs, FALSE, FALSE) : rs \in RemoteSets}
    ELSE {ProjectDir(FALSE, {}, m, c) : m \in BOOLEAN, c \in BOOLEAN}

\* GitUtils.is_git_repository: `git status` succeeds
IsGitRepository(pd) == pd.isRepo

\* GitUtils.has_remote_origin: "origin" occurs in the output of
\* `git remote -v`, which lists every remote's name and URL.
HasRemoteOrigin(pd) ==
    pd.isRepo /\ \E r \in pd.remotes : In("origin", r.name \o RemoteUrl(r))

\* GitUtils.get_remote_origin_url: `git remote get-url origin`, None when
\* the command fails.
GetRemoteOriginUrl(pd) ==
    IF \E r \in pd.remotes : r.name = <<"origin">>
    THEN RemoteUrl(CHOOSE r \in pd.remotes : r.name = <<"origin">>)
    ELSE NoneVal

Decision(should, reason) == [should |-> should, reason |-> reason]

\* GitHubAutoCreation.should_create_repository
ShouldCreateRepository(pd) ==
    IF ~IsGitRepository(pd) THEN Decision(TRUE, <<"No git repository detected">>)
    ELSE IF ~HasRemoteOrigin(pd)
         THEN Decision(TRUE, <<"Git repository exists but ", "no remote origin",
                               " configured">>)
    ELSE IF GetRemoteOriginUrl(pd) # NoneVal /\ ~In("github.com", GetRemoteOriginUrl(pd))
         THEN Decision(TRUE, <<"Remote origin is not GitHub">>)
    ELSE Decision(FALSE, <<"Git repository with GitHub remote already exists">>)

\* What the reasons call the backend's resource, and its config file.
ResourceNoun(b) ==
    CASE b = "netlify" -> "Netlify site"
      [] b = "vercel" -> "Vercel project"
      [] OTHER -> "Railway project"

ConfigFileName(b) ==
    CASE b = "netlify" -> "netlify.toml"
      [] b = "vercel" -> "vercel.json"
      [] OTHER -> "railway.json"

ShouldCreateConfigFirst(b, pd) ==
    IF pd.configFile
    THEN Decision(FALSE, <<ConfigFileName(b), " found, ", "may already exist">>)
    ELSE IF pd.markerDir THEN Decision(FALSE, <<ResourceNoun(b), " already configured">>)
    ELSE Decision(TRUE, <<"No ", ResourceNoun(b), " detected">>)

\* NetlifyAutoCreation.should_create_site, VercelAutoCreation and
\* RailwayAutoCreation.should_create_project
ShouldCreateProject(b, pd) ==
    IF pd.markerDir THEN Decision(FALSE, <<ResourceNoun(b), " already configured">>)
    ELSE IF pd.configFile
         THEN Decision(FALSE, <<ConfigFileName(b), " found, ", "may already exist">>)
    ELSE Decision(TRUE, <<"No ", ResourceNoun(b), " detected">>)

\* should_create_* of backend b
ShouldCreate(b, pd) ==
    IF b = "github" THEN ShouldCreateRepository(pd) ELSE ShouldCreateProject(b, pd)

-----------------------------------------------------------------------------
(* Auto-creation, step by step *)

\* GitHubAutoCreation._generate_suggested_name looks candidate names up
\* until one does not exist: the base name, then base-1, base-2, ...
\* The remote holds the first `taken` candidates, or every candidate
\* (endless).  MaxProbes bounds the lookups the model follows.
MaxTaken == 2

MaxProbes == 4

NoProbe ==
    [state |-> "idle", taken |-> 0, endless |-> FALSE, counter |-> 0, lookups |-> 0]

\* github_client.get_repo(candidate k) succeeds
RepoExists(pr, k) == pr.endless \/ k < pr.taken

\* The candidate with counter k: base_name, or f"{base_name}-{k}"
CandidateName(k) ==
    CASE k = 0 -> "app"
      [] k = 1 -> "app-1"
      [] k = 2 -> "app-2"
      [] OTHER -> "app-n"

\* What the name prompt returns: None on Ctrl-C, the suggestion on Enter,
\* the cleaned input otherwise.
Prompts == {"cancel", "default", "custom"}

PromptForName(prompt, suggested) ==
    CASE prompt = "cancel" -> NoId
      [] prompt = "default" -> suggested
      [] OTHER -> "shop"

\* How the creation requests end.  Railway creates a project and then a
\* service in it.
CreateAnswers(b) ==
    CASE b = "railway" -> {"ok", "refused", "service_refused"}
      [] b = "github" -> {"ok", "refused"}
      [] OTHER -> {"ok", "ok_noid", "refused"}

Outcome(ok, msg, id, name, creates, pd) ==
    [ok |-> ok, msg |-> msg, id |-> id, name |-> name, creates |-> creates, pd |-> pd]

\* GitHubAutoCreation._configure_git_remote: git init when the directory is
\* no repository, then add origin when has_remote_origin() says none exists.
ConfigureGitRemote(pd) ==
    LET inited == [pd EXCEPT !.isRepo = TRUE]
    IN  IF HasRemoteOrigin(inited) THEN inited
        ELSE [inited EXCEPT !.remotes = @ \cup {OriginGithub}]

\* What a successful creation leaves in the project directory.  A CLI tool
\* may or may not leave its link-marker directory, and
\* NetlifyAutoCreation._create_via_api writes .netlify/state.json unless the
\* write fails (marks); the API paths of Vercel and Railway write nothing.
LinkProject(b, pd, viaCli, marks) ==
    CASE b = "github" -> ConfigureGitRemote(pd)
      [] b # "github" /\ (viaCli \/ b = "netlify") /\ marks ->
           [pd EXCEPT !.markerDir = TRUE]
      [] OTHER -> pd

CancelledMessage(b) ==
    CASE b = "github" -> <<"Repository", " creation cancelled">>
      [] b = "netlify" -> <<"Site", " creation cancelled">>
      [] OTHER -> <<"Project", " creation cancelled">>

AutoCreatePromptLast(b, pd, hasClient, viaCli, suggested, prompt, answer, marks) ==
    LET d == ShouldCreate(b, pd)
        name == PromptForName(prompt, suggested)
    IN  IF b = "github" /\ ~hasClient
        THEN Outcome(FALSE, <<"GitHub token not available">>, NoId, NoId, 0, pd)
        ELSE IF ~d.should THEN Outcome(TRUE, d.reason, NoId, NoId, 0, pd)
        ELSE IF b # "github" /\ ~viaCli /\ ~hasClient
             THEN Outcome(FALSE, <<"No authentication method available">>, NoId,
                          NoId, 0, pd)
        ELSE IF answer = "refused"
             THEN Outcome(FALSE, <<"Failed to create: ", "name taken">>, NoId, NoId,
                          1, pd)
        ELSE IF answer = "service_refused"
             THEN Outcome(FALSE, <<"Service creation failed: ", "refused">>, NoId,
                          suggested, 2, pd)
        ELSE IF prompt = "cancel"
             THEN Outcome(FALSE, CancelledMessage(b), NoId, NoId, 1,
                          LinkProject(b, pd, viaCli, marks))
        ELSE Outcome(TRUE, <<"Created: ", name>>,
                     IF answer = "ok_noid" THEN NoId ELSE "new", name,
                     IF b = "railway" THEN 2 ELSE 1, LinkProject(b, pd, viaCli, marks))

\* auto_create_repository / auto_create_site / auto_create_project /
\* auto_create_complete_setup, with the name already suggested: decide,
\* prompt, create, link.
AutoCreateResource(b, pd, hasClient, viaCli, suggested, prompt, answer, marks) ==
    LET d == ShouldCreate(b, pd)
        name == PromptForName(prompt, suggested)
    IN  IF b = "github" /\ ~hasClient
        THEN Outcome(FALSE, <<"GitHub token not available">>, NoId, NoId, 0, pd)
        ELSE IF ~d.should THEN Outcome(TRUE, d.reason, NoId, NoId, 0, pd)
        ELSE IF prompt = "cancel"
             THEN Outcome(FALSE, CancelledMessage(b), NoId, NoId, 0, pd)
        ELSE IF b # "github" /\ ~viaCli /\ ~hasClient
             THEN Outcome(FALSE, <<"No authentication method available">>, NoId,
                          NoId, 0, pd)
        ELSE IF answer = "refused"
             THEN Outcome(FALSE, <<"Failed to create: ", "name taken">>, NoId, NoId,
                          1, pd)
        ELSE IF answer = "service_refused"
             THEN Outcome(FALSE, <<"Service creation failed: ", "refused">>, NoId,
                          name, 2, pd)
        ELSE Outcome(TRUE, <<"Created: ", name>>,
                     IF answer = "ok_noid" THEN NoId ELSE "new", name,
                     IF b = "railway" THEN 2 ELSE 1, LinkProject(b, pd, viaCli, marks))

-----------------------------------------------------------------------------
(* The working tree of a branch deployment *)

\* A file is <<path, data>>, its path a sequence of names below the project
\* directory; a directory exists where a file lies under it.  output_dir is
\* the path of the build output: "dist", "dist/site", or "." (the empty
\* path, the project directory itself).
OutputDirs == {<<"dist">>, <<"dist", "site">>, <<>>}

File(path, data) == <<path, data>>

PathOf(f) == f[1]

IsUnder(dir, path) ==
    Len(path) > Len(dir) /\ SubSeq(path, 1, Len(dir)) = dir

\* The files of the build output directory, and their paths below it.
OutputFiles(fs, out) == {f \in fs : IsUnder(out, PathOf(f))}

Below(out, f) == SubSeq(PathOf(f), Len(out) + 1, Len(PathOf(f)))

\* What the build command writes: an index page and a directory of assets.
BuildOutput(out, data) ==
    {File(out \o <<"index.html">>, data), File(out \o <<"assets", "app.js">>, data)}

GitMeta == File(<<".git", "HEAD">>, "meta")

IgnoreFile == File(<<".gitignore">>, "node_modules")

DomainFile == File(<<"CNAME">>, "example.org")

SourceFiles == {File(<<"README.md">>, "src"), File(<<"src", "app.js">>, "src")}

\* output_path.exists()
OutputExists(fs, out) == out = <<>> \/ OutputFiles(fs, out) # {}

\* protected_items = {'.git', output_dir, '.gitignore', 'CNAME'}, compared
\* with item.name: the string output_dir is an entry's name only when it is
\* a single name.
ProtectedItems(out) ==
    {".git", ".gitignore", "CNAME"} \cup (IF Len(out) = 1 THEN {out[1]} ELSE {})

\* The clearing loop of deploy_to_branch: every entry of the project
\* directory whose name is not protected is removed.
ClearBranch(fs, out) == {f \in fs : PathOf(f)[1] \in ProtectedItems(out)}

\* The copy loop of deploy_to_branch.  For a directory item the destination
\* is removed first (rmtree) and the item copied when it still exists; a
\* file item overwrites its destination.  Failures of one item are logged
\* and skipped.
CopyBuildOutput(fs, out) ==
    LET items == OutputFiles(fs, out)
        dirItems == {Below(out, f)[1] : f \in {g \in items : Len(Below(out, g)) > 1}}
        afterRm == {f \in fs : PathOf(f)[1] \notin dirItems}
        copied == {File(Below(out, f), f[2]) : f \in items \cap afterRm}
    IN  {f \in afterRm : \A c \in copied : PathOf(c) # PathOf(f)} \cup copied

\* What `git add .` stages: the working tree without the metadata.
Snapshot(fs) == {f \in fs : PathOf(f)[1] # ".git"}

IsRepoTree(fs) == \E f \in fs : PathOf(f)[1] = ".git"

\* The working tree, the commit the deployment branch points at (its tree;
\* empty before the first commit), the number of commits made by
\* deployments (at most MaxCommits are followed), and the tree of the remote
\* branch.
MaxCommits == 3

WorkingTree(out, fs, head, commits, remote) ==
    [out |-> out, files |-> fs, head |-> head, commits |-> commits,
     remote |-> remote]

NoTree == WorkingTree(<<"dist">>, {}, {}, 0, {})

\* The git steps of deploy_to_branch on working tree t: Repo or Repo.init,
\* checkout of the branch, clear, copy, add, commit, forced push.  `git` is
\* how they end, in the terms of DeployToBranch.
BranchSteps(t, pushOk) ==
    LET inited == t.files \cup {GitMeta}
        cleared == ClearBranch(inited, t.out)
        copied == CopyBuildOutput(cleared, t.out)
        staged == Snapshot(copied)
    IN  IF ~OutputExists(t.files, t.out)
        THEN [t |-> t, build |-> "missing", git |-> "git_error", cleared |-> t.files]
        ELSE IF ~OutputExists(cleared, t.out)
             THEN [t |-> [t EXCEPT !.files = cleared], build |-> "present",
                   git |-> "git_error", cleared |-> cleared]
        ELSE IF ~IsRepoTree(copied)
             THEN [t |-> [t EXCEPT !.files = copied], build |-> "present",
                   git |-> "git_error", cleared |-> cleared]
        ELSE IF staged = t.head
             THEN [t |-> [t EXCEPT !.files = copied], build |-> "present",
                   git |-> "nothing", cleared |-> cleared]
        ELSE IF ~pushOk
             THEN [t |-> [t EXCEPT !.files = copied, !.head = staged,
                                   !.commits = @ + 1],
                   build |-> "present", git |-> "push_failed", cleared |-> cleared]
        ELSE [t |-> [t EXCEPT !.files = copied, !.head = staged, !.commits = @ + 1,
                              !.remote = staged],
              build |-> "present", git |-> "pushed", cleared |-> cleared]

-----------------------------------------------------------------------------
(* Two deployers and one remote branch *)

Deployers == {"a", "b"}

\* A commit of the deployment branch: who made it, and its tree.
Commit(by, snapshot) == [by |-> by, tree |-> snapshot]

NoCommit == Commit("none", {})

\* The commit both working copies were cloned at.
BaseCommit == Commit("base", SourceFiles \cup {IgnoreFile})

\* A deployer's working copy: its position in deploy_to_branch, its files,
\* the commit its deployment branch points at, the value of the remote
\* branch its push was told of, how its git steps ended, and what
\* deploy_to_branch returned.
WorkingCopy(fs) ==
    [pc |-> "start", files |-> fs, head |-> BaseCommit, seen |-> NoCommit,
     git |-> "none", ret |-> Result(FALSE, <<>>, NoUrl)]

\* No deployers: the remote branch is not followed.
NoRace == [copy |-> <<>>, ref |-> NoCommit, order |-> <<>>]

\* The build each deployer has made: different outputs.
BuildOf(d) == IF d = "a" THEN "v1" ELSE "v2"

\* Both deployers have cloned the repository and built; the remote branch
\* is at the clone's commit, and `order` lists the pushes in the order the
\* remote handled them.
StartOfRace(out, domain) ==
    [copy |-> [d \in Deployers |->
                  WorkingCopy(SourceFiles \cup {IgnoreFile, GitMeta} \cup domain
                                 \cup BuildOutput(out, BuildOf(d)))],
     ref |-> BaseCommit, order |-> <<>>]

-----------------------------------------------------------------------------
(* State machine *)

\* Nothing observed: no call has returned since the environment last changed.
Idle ==
    [op |-> "none", raised |-> FALSE, ok |-> FALSE, msg |-> <<>>, url |-> NoUrl,
     status |-> "", raw |-> "", tok |-> NoneVal, attempts |-> 0, reqs |-> 0,
     created |-> FALSE, script |-> NoScript, build |-> "present",
     bundle |-> FALSE, auto |-> "none", valid |-> FALSE, test |-> "none",
     prompt |-> "none", creates |-> 0, changed |-> FALSE,
     again |-> FALSE, prevUrl |-> NoUrl, newCommit |-> FALSE, before |-> {},
     cleared |-> {}, tried |-> <<>>, proc |-> NoProcess, prepared |-> FALSE,
     git |-> "none"]

\* A run starts before the platform object exists, in any environment.
InitCred ==
    /\ backend \in Backends
    /\ config = [res |-> "cfg", envId |-> NoId, useCli |-> TRUE, method |-> "branch"]
    /\ cliAvail \in BOOLEAN
    /\ cliTok \in CliValues
    /\ files \in [FileNames(backend) -> FileValues]
    /\ envTok \in EnvValues
    /\ plat = Unbuilt
    /\ last = Idle
    /\ proj = EmptyDir
    /\ tree = NoTree
    /\ probe = NoProbe
    /\ race = NoRace

\* Environments in which no credential source yields a value: the CLI tool
\* is logged out or exports nothing, the token files are missing or blank,
\* the environment variable is unset or empty.
InitNoToken ==
    /\ backend \in Backends
    /\ config \in Configs(backend)
    /\ cliAvail \in BOOLEAN
    /\ cliTok \in CliValues
    /\ cliAvail => cliTok \in {NoneVal, <<>>}
    /\ files \in [FileNames(backend) -> {NoneVal, <<" ">>}]
    /\ envTok \in {NoneVal, <<>>}
    /\ plat = Unbuilt
    /\ last = Idle
    /\ proj = EmptyDir
    /\ tree = NoTree
    /\ probe = NoProbe
    /\ race = NoRace

\* Environments in which the environment variable is the only source.
InitAuth ==
    /\ backend \in Backends
    /\ config \in Configs(backend)
    /\ config.useCli /\ config.method = "branch" /\ config.envId = NoId
    /\ cliAvail = FALSE
    /\ cliTok = NoneVal
    /\ files = [n \in FileNames(backend) |-> NoneVal]
    /\ envTok \in EnvValues
    /\ plat = Unbuilt
    /\ last = Idle
    /\ proj = EmptyDir
    /\ tree = NoTree
    /\ probe = NoProbe
    /\ race = NoRace

\* The user logs the CLI tool in or out, or its stored token changes.
CliChanges ==
    /\ \E a \in BOOLEAN, t \in CliValues :
          /\ <<a, t>> # <<cliAvail, cliTok>>
          /\ cliAvail' = a
          /\ cliTok' = t
    /\ last' = Idle
    /\ UNCHANGED <<backend, config, files, envTok, plat, dirVars>>

\* What the user pastes at the token prompt, stripped.
PastedTokens == {Strip(v) : v \in FileValues \ {NoneVal}}

\* How _test_platform_token ends: the token is accepted, it is not (every
\* Exception counts as that), or the user interrupts the test.  For GitHub,
\* Vercel and Railway the test builds the platform object and calls
\* validate_credentials, which fails before any request when no source
\* yields a token.
TokenTests(b, resolved) ==
    IF b # "netlify" /\ ~Truthy(resolved) THEN {"invalid"}
    ELSE {"valid", "invalid", "interrupt"}

\* What the user does at a prompt of the setup: answer, or interrupt it.
PromptAnswers == {"answered", "interrupt"}

\* _setup_platform_auth: ask whether to open the token page, read the
\* token, save it in .deployx_{platform}_token, test it, and remove the file
\* when the test says it is invalid.  An interrupt at a prompt or during the
\* test ends the command in the KeyboardInterrupt handler.
SetupPlatformAuth ==
    /\ \E page \in PromptAnswers, entry \in PromptAnswers, t \in PastedTokens :
          LET written == [files EXCEPT ![TokenFileAuth(backend)] = t]
              removed == [files EXCEPT ![TokenFileAuth(backend)] = NoneVal]
              asked == page = "answered" /\ entry = "answered"
          IN  \E test \in TokenTests(backend,
                                    GetToken(backend, cliAvail, cliTok, written, envTok)) :
                 /\ files' = CASE ~asked \/ t = <<>> -> files
                               [] test = "invalid" -> removed
                               [] OTHER -> written
                 /\ last' = [Idle EXCEPT
                               !.op = "auth_setup",
                               !.ok = (asked /\ t # <<>> /\ test = "valid"),
                               !.tok = IF asked THEN t ELSE NoneVal,
                               !.test = IF ~asked \/ t = <<>> THEN "none" ELSE test,
                               !.prompt = CASE page = "interrupt" -> "page"
                                            [] entry = "interrupt" -> "token"
                                            [] OTHER -> "none"]
    /\ UNCHANGED <<backend, config, cliAvail, cliTok, envTok, plat, dirVars>>

\* _check_<platform>_auth()[0]: the CLI tool is logged in (GitHub, Vercel,
\* Railway), the file .deployx_{platform}_token exists, or the environment
\* variable is set to something.
IsConfigured ==
    \/ backend # "netlify" /\ cliAvail
    \/ files[TokenFileAuth(backend)] # NoneVal
    \/ Truthy(envTok)

\* auth_setup_command(platform) for a supported platform: when the platform
\* is configured already, ask whether to reconfigure, outside any handler of
\* KeyboardInterrupt; then _setup_platform_auth.
AuthSetupCommand ==
    \/ /\ IsConfigured
       /\ \E reconfigure \in {"no", "interrupt"} :
             last' = [Idle EXCEPT !.op = "auth_setup",
                                  !.raised = (reconfigure = "interrupt"),
                                  !.ok = (reconfigure = "no"),
                                  !.prompt = IF reconfigure = "interrupt"
                                             THEN "reconfigure" ELSE "none"]
       /\ UNCHANGED <<backend, config, envVars, plat>>
    \/ SetupPlatformAuth

\* `deployx init` saves the token in the file the platform reads; the user
\* may also edit that file by hand.
TokenFileWritten ==
    /\ \E t \in FileValues \ {NoneVal} :
          /\ files[TokenFileRead(backend)] # t
          /\ files' = [files EXCEPT ![TokenFileRead(backend)] = t]
    /\ last' = Idle
    /\ UNCHANGED <<backend, config, cliAvail, cliTok, envTok, plat, dirVars>>

TokenFileRemoved ==
    /\ \E n \in FileNames(backend) :
          /\ files[n] # NoneVal
          /\ files' = [files EXCEPT ![n] = NoneVal]
    /\ last' = Idle
    /\ UNCHANGED <<backend, config, cliAvail, cliTok, envTok, plat, dirVars>>

EnvVarChanges ==
    /\ \E t \in EnvValues :
          /\ t # envTok
          /\ envTok' = t
    /\ last' = Idle
    /\ UNCHANGED <<backend, config, cliAvail, cliTok, files, plat, dirVars>>

\* <Platform>(config)
Construct ==
    /\ ~plat.built
    /\ plat' = NewPlatform(backend, config, ResolveNow)
    /\ last' = [Idle EXCEPT !.op = "construct", !.ok = TRUE, !.tok = ResolveNow]
    /\ UNCHANGED <<backend, config, envVars>>

\* platform._get_token()
GetTokenCall ==
    /\ plat.built
    /\ last' = [Idle EXCEPT !.op = "get_token", !.ok = TRUE, !.tok = ResolveNow]
    /\ UNCHANGED <<backend, config, envVars, plat>>

\* platform.validate_credentials()
Validate ==
    /\ plat.built
    /\ \E script \in Scripts(backend), auto \in AutoOutcomes(backend),
          hasLogger \in Loggers(backend) :
          LET r == ValidateCredentials(backend, plat, ResolveNow, script, auto,
                                       hasLogger)
          IN  /\ plat' = r.p
              /\ last' = [Idle EXCEPT !.op = "validate", !.raised = r.exc # "none",
                                      !.ok = r.ok, !.msg = r.msg, !.tok = r.reqTok,
                                      !.attempts = r.attempts, !.reqs = r.reqs,
                                      !.created = r.created, !.script = script,
                                      !.auto = auto]
    /\ UNCHANGED <<backend, config, envVars>>

\* platform.prepare_deployment(project_path, build_command, output_dir)
Prepare ==
    /\ plat.built
    /\ \E script \in SteadyScripts(backend), auto \in AutoOutcomes(backend),
          hasLogger \in Loggers(backend), build \in BuildStates :
          LET v == ValidateCredentials(backend, plat, ResolveNow, script, auto,
                                       hasLogger)
              r == PrepareDeployment(backend, v, build)
          IN  /\ plat' = r.p
              /\ last' = [Idle EXCEPT !.op = "prepare", !.raised = r.raised,
                                      !.ok = r.ok, !.msg = r.msg,
                                      !.created = v.created, !.build = build,
                                      !.valid = v.ok]
    /\ UNCHANGED <<backend, config, envVars>>

\* platform.execute_deployment(project_path, output_dir)
Execute ==
    /\ plat.built
    /\ \E build \in BuildStates, zip \in ZipOutcomes(backend), linkOk \in BOOLEAN,
          upOk \in BOOLEAN, out \in DeployOutcomes(backend),
          git \in GitOutcomes(backend) :
          LET r == ExecuteDeployment(backend, plat, cliAvail, build, zip, linkOk,
                                     upOk, out, git)
          IN  last' = [Idle EXCEPT !.op = "execute", !.raised = r.raised,
                                   !.ok = r.ok, !.msg = r.msg, !.url = r.url,
                                   !.build = build, !.bundle = r.bundle,
                                   !.tried = r.tried, !.git = git,
                                   !.prepared = (last.op = "prepare" /\ last.ok),
                                   !.proc = IF In("cli", r.tried) THEN RunProcess(out)
                                            ELSE NoProcess]
    /\ UNCHANGED <<backend, config, envVars, plat>>

\* platform.get_status()
GetStatusCall ==
    /\ plat.built
    /\ \E script \in SteadyScripts(backend), auto \in AutoOutcomes(backend),
          hasLogger \in Loggers(backend), ans \in StatusAnswers(backend) :
          LET v == ValidateCredentials(backend, plat, ResolveNow, script, auto,
                                       hasLogger)
              r == GetStatus(backend, plat, v, ans)
          IN  /\ plat' = r.p
              /\ last' = [Idle EXCEPT !.op = "status", !.ok = TRUE, !.msg = r.msg,
                                      !.url = r.url, !.status = r.status,
                                      !.raw = r.raw]
    /\ UNCHANGED <<backend, config, envVars>>

\* platform.get_url()
GetUrlCall ==
    /\ plat.built
    /\ \E ans \in {"found", "fail"}, out \in {"ok_url", "ok_nourl"} :
          last' = [Idle EXCEPT !.op = "url", !.ok = TRUE,
                               !.url = GetUrl(backend, plat, ans, out)]
    /\ UNCHANGED <<backend, config, envVars, plat>>

\* A GitHub configuration can also name the user site's repository.
RepoConfigs(b) ==
    IF b = "github"
    THEN [res : {"site"}, envId : {NoId}, useCli : {TRUE}, method : {"branch"}]
    ELSE {}

\* A run of the deployment pipeline: the token, if any, comes from the
\* environment variable; the CLI tool is logged in or not.
Init ==
    /\ backend \in Backends
    /\ config \in Configs(backend) \cup RepoConfigs(backend)
    /\ cliAvail \in BOOLEAN
    /\ cliTok = NoneVal
    /\ files = [n \in FileNames(backend) |-> NoneVal]
    /\ envTok \in {NoneVal, <<"e">>}
    /\ plat = Unbuilt
    /\ last = Idle
    /\ proj = EmptyDir
    /\ tree = NoTree
    /\ probe = NoProbe
    /\ race = NoRace

Next ==
    \/ Construct
    \/ Validate
    \/ Prepare
    \/ Execute
    \/ GetStatusCall
    \/ GetUrlCall

Spec == Init /\ [][Next]_vars

NextCred ==
    \/ CliChanges
    \/ AuthSetupCommand
    \/ TokenFileWritten
    \/ TokenFileRemoved
    \/ EnvVarChanges
    \/ Construct
    \/ GetTokenCall

SpecCred == InitCred /\ [][NextCred]_vars

NextNoToken ==
    \/ Construct
    \/ GetTokenCall
    \/ Validate

SpecNoToken == InitNoToken /\ [][NextNoToken]_vars

NextAuth ==
    \/ EnvVarChanges
    \/ Construct
    \/ Validate

SpecAuth == InitAuth /\ [][NextAuth]_vars

-----------------------------------------------------------------------------
(* Auto-creation on a project directory *)

\* The auto-creation object has an API client when a token was resolved.
HasClient == Truthy(ResolveNow)

\* auto-creation creates through the CLI tool when use_cli is set and the
\* tool is available.
ViaCli == config.useCli /\ cliAvail

\* auto_creation.should_create_repository / _site / _project(".")
ShouldCreateCall ==
    /\ probe.state = "idle"
    /\ LET d == ShouldCreate(backend, proj)
       IN  last' = [Idle EXCEPT !.op = "should_create", !.ok = d.should,
                                !.msg = d.reason]
    /\ UNCHANGED <<backend, config, cliAvail, cliTok, files, envTok, plat, dirVars>>

\* auto_create_repository reaches _generate_suggested_name
ReachesSuggestion ==
    backend = "github" /\ HasClient /\ ShouldCreate(backend, proj).should

\* auto_create_repository up to the first lookup of
\* _generate_suggested_name: get_repo(base_name)
SuggestNameStart ==
    /\ ReachesSuggestion
    /\ probe.state = "idle"
    /\ \E taken \in 0..MaxTaken, endless \in BOOLEAN :
          /\ endless => taken = 0
          /\ probe' = [state |-> IF endless \/ taken > 0 THEN "running" ELSE "returned",
                       taken |-> taken, endless |-> endless,
                       counter |-> IF endless \/ taken > 0 THEN 1 ELSE 0,
                       lookups |-> 1]
    /\ last' = [Idle EXCEPT !.op = "suggest"]
    /\ UNCHANGED <<backend, config, cliAvail, cliTok, files, envTok, plat, proj, tree,
                   race>>

\* One turn of the `while True` loop: get_repo(f"{base_name}-{counter}")
SuggestNameLoop ==
    /\ probe.state = "running"
    /\ probe.lookups < MaxProbes
    /\ probe' = IF RepoExists(probe, probe.counter)
                THEN [probe EXCEPT !.counter = @ + 1, !.lookups = @ + 1]
                ELSE [probe EXCEPT !.state = "returned", !.lookups = @ + 1]
    /\ UNCHANGED <<backend, config, cliAvail, cliTok, files, envTok, plat, last, proj,
                   tree, race>>

\* auto_create_repository / auto_create_site / auto_create_project /
\* auto_create_complete_setup, for GitHub from the point where the name has
\* been suggested.
AutoCreateCall ==
    /\ probe.state = IF ReachesSuggestion THEN "returned" ELSE "idle"
    /\ \E prompt \in Prompts, answer \in CreateAnswers(backend), marks \in BOOLEAN :
          LET o == AutoCreateResource(backend, proj, HasClient, ViaCli,
                                      CandidateName(probe.counter), prompt, answer,
                                      marks)
              prompted == (backend = "github" => HasClient)
                          /\ ShouldCreate(backend, proj).should
          IN  /\ proj' = o.pd
              /\ last' = [Idle EXCEPT !.op = "auto_create", !.ok = o.ok,
                                      !.msg = o.msg, !.creates = o.creates,
                                      !.changed = (o.pd # proj),
                                      !.prompt = IF prompted THEN prompt ELSE "none"]
    /\ probe' = NoProbe
    /\ UNCHANGED <<backend, config, cliAvail, cliTok, files, envTok, plat, tree, race>>

\* A project directory in any state, with or without a token in the
\* environment variable and with or without the CLI tool.
InitAuto ==
    /\ backend \in Backends
    /\ config \in Configs(backend)
    /\ config.method = "branch" /\ config.res = NoId /\ config.envId = NoId
    /\ cliAvail \in BOOLEAN
    /\ cliTok = NoneVal
    /\ files = [n \in FileNames(backend) |-> NoneVal]
    /\ envTok \in {NoneVal, <<"e">>}
    /\ plat = Unbuilt
    /\ last = Idle
    /\ proj \in ProjectDirs(backend)
    /\ tree = NoTree
    /\ probe = NoProbe
    /\ race = NoRace

NextAuto ==
    \/ ShouldCreateCall
    \/ SuggestNameStart
    \/ SuggestNameLoop
    \/ AutoCreateCall

SpecAuto == InitAuto /\ [][NextAuto]_vars

-----------------------------------------------------------------------------
(* Branch deployment on a working tree *)

\* A project before its first deployment: sources, an ignore file, maybe a
\* custom-domain file, the build output in output_dir; a git repository with
\* the sources committed, or no repository yet.
InitialTrees ==
    {WorkingTree(out,
                 SourceFiles \cup {IgnoreFile} \cup domain \cup meta
                    \cup BuildOutput(out, "v1"),
                 IF meta = {} THEN {} ELSE SourceFiles \cup {IgnoreFile} \cup domain,
                 0, {}) :
        out \in OutputDirs, domain \in {{}, {DomainFile}}, meta \in {{}, {GitMeta}}}

\* The build command runs again and writes the output anew.
Rebuild ==
    /\ \E data \in {"v1", "v2"} :
          LET fresh == BuildOutput(tree.out, data)
              others == {f \in tree.files :
                            \A g \in fresh : PathOf(g) # PathOf(f)}
          IN  /\ others \cup fresh # tree.files
              /\ tree' = [tree EXCEPT !.files = others \cup fresh]
    /\ last' = Idle
    /\ UNCHANGED <<backend, config, cliAvail, cliTok, files, envTok, plat, proj, probe,
                   race>>

\* platform.execute_deployment(project_path, output_dir) with method
\* "branch": GitHubDeployment.deploy_to_branch on the working tree.
DeployToBranchCall ==
    /\ plat.built
    /\ plat.method = "branch"
    /\ tree.commits < MaxCommits
    /\ \E pushOk \in BOOLEAN :
          LET s == BranchSteps(tree, pushOk)
              r == DeployToBranch(plat, s.build, s.git)
          IN  /\ tree' = s.t
              /\ last' = [Idle EXCEPT
                            !.op = "branch", !.ok = r.ok, !.msg = r.msg,
                            !.url = r.url, !.build = s.build,
                            !.again = (last.op = "branch"
                                       /\ OutputFiles(last.before, tree.out)
                                            = OutputFiles(tree.files, tree.out)),
                            !.prevUrl = last.url,
                            !.newCommit = (s.t.commits # tree.commits),
                            !.before = tree.files,
                            !.cleared = s.cleared]
    /\ UNCHANGED <<backend, config, cliAvail, cliTok, files, envTok, plat, proj, probe,
                   race>>

InitBranch ==
    /\ backend = "github"
    /\ config \in [res : {"cfg", "site", "bare"}, envId : {NoId}, useCli : {TRUE},
                   method : {"branch"}]
    /\ cliAvail = FALSE
    /\ cliTok = NoneVal
    /\ files = [n \in FileNames(backend) |-> NoneVal]
    /\ envTok = <<"e">>
    /\ plat = Unbuilt
    /\ last = Idle
    /\ proj = EmptyDir
    /\ tree \in InitialTrees
    /\ probe = NoProbe
    /\ race = NoRace

NextBranch ==
    \/ Construct
    \/ Rebuild
    \/ DeployToBranchCall

SpecBranch == InitBranch /\ [][NextBranch]_vars

-----------------------------------------------------------------------------
(* Concurrent branch deployments *)

RaceFrame ==
    UNCHANGED <<backend, config, cliAvail, cliTok, files, envTok, plat, last, proj,
                tree, probe>>

\* deploy_to_branch of deployer d up to the copy loop: output check, Repo,
\* checkout, clear, copy.  Only d's working copy is touched.
ClearAndCopy(d) ==
    /\ plat.built
    /\ race.copy[d].pc = "start"
    /\ LET c == race.copy[d]
           out == <<"dist">>
           cleared == ClearBranch(c.files, out)
           copied == CopyBuildOutput(cleared, out)
       IN  race' = [race EXCEPT !.copy[d].files = copied, !.copy[d].pc = "copied"]
    /\ RaceFrame

\* repo.git.add('.') and repo.git.commit(...) of deployer d: a new commit
\* on d's local branch, or success without a push when nothing changed.
AddAndCommit(d) ==
    /\ race.copy[d].pc = "copied"
    /\ LET c == race.copy[d]
           staged == Snapshot(c.files)
       IN  IF staged = c.head.tree
           THEN race' = [race EXCEPT
                           !.copy[d].pc = "done", !.copy[d].git = "nothing",
                           !.copy[d].ret = DeployToBranch(plat, "present", "nothing")]
           ELSE race' = [race EXCEPT !.copy[d].pc = "committed",
                                     !.copy[d].head = Commit(d, staged)]
    /\ RaceFrame

\* origin.push(refspec, force=True), first half: the remote tells d's push
\* where its branch points.
PushAdvertise(d) ==
    /\ race.copy[d].pc = "committed"
    /\ race' = [race EXCEPT !.copy[d].pc = "advertised", !.copy[d].seen = race.ref]
    /\ RaceFrame

\* origin.push(refspec, force=True), second half, and the return of
\* deploy_to_branch: the remote moves the branch to d's commit when the
\* branch is still where the push was told it was, and rejects the update
\* otherwise; a rejected head is reported in the push result, which
\* deploy_to_branch does not look at.
PushUpdate(d) ==
    /\ race.copy[d].pc = "advertised"
    /\ LET c == race.copy[d]
           git == IF race.ref = c.seen THEN "pushed" ELSE "rejected"
       IN  race' = [race EXCEPT
                       !.ref = IF git = "pushed" THEN c.head ELSE @,
                       !.order = Append(@, d),
                       !.copy[d].pc = "done",
                       !.copy[d].git = git,
                       !.copy[d].ret = DeployToBranch(plat, "present", git)]
    /\ RaceFrame

InitRace ==
    /\ backend = "github"
    /\ config \in [res : {"cfg", "site"}, envId : {NoId}, useCli : {TRUE},
                   method : {"branch"}]
    /\ cliAvail = FALSE
    /\ cliTok = NoneVal
    /\ files = [n \in FileNames(backend) |-> NoneVal]
    /\ envTok = <<"e">>
    /\ plat = Unbuilt
    /\ last = Idle
    /\ proj = EmptyDir
    /\ tree = NoTree
    /\ probe = NoProbe
    /\ race \in {StartOfRace(<<"dist">>, domain) : domain \in {{}, {DomainFile}}}

NextRace ==
    \/ Construct
    \/ \E d \in Deployers : ClearAndCopy(d)
    \/ \E d \in Deployers : AddAndCommit(d)
    \/ \E d \in Deployers : PushAdvertise(d)
    \/ \E d \in Deployers : PushUpdate(d)

SpecRace == InitRace /\ [][NextRace]_vars

-----------------------------------------------------------------------------
(* One deployment run in a project directory *)

\* What validate_credentials receives from the auto-creation call,
\* (success, message, identifier), in the terms of AutoOutcomes.
AutoOutcomeOf(b, o, prompt) ==
    CASE o.ok /\ o.creates = 0 -> "skip"
      [] ~o.ok /\ o.creates = 0 -> "cancel"
      [] ~o.ok /\ o.creates > 0 -> "fail"
      [] o.ok /\ o.creates > 0 /\ o.id = NoId -> "made_noid"
      [] o.ok /\ o.creates > 0 /\ o.id # NoId /\ b = "vercel" /\ prompt = "custom" ->
           "made_renamed"
      [] OTHER -> "made"

\* The run's first step: platform.validate_credentials(), its auto-creation
\* acting on the project directory.
ValidateInDir ==
    /\ plat.built
    /\ last.op = "construct"
    /\ \E script \in SteadyScripts(backend), hasLogger \in Loggers(backend),
          prompt \in Prompts, answer \in CreateAnswers(backend), marks \in BOOLEAN,
          auto \in AutoOutcomes(backend) :
          LET o == AutoCreateResource(backend, proj, HasClient, ViaCli,
                                      CandidateName(0), prompt, answer, marks)
              r == ValidateCredentials(backend, plat, ResolveNow, script, auto,
                                       hasLogger)
          IN  /\ auto = AutoOutcomeOf(backend, o, prompt)
              /\ plat' = r.p
              /\ proj' = IF r.created THEN o.pd ELSE proj
              /\ last' = [Idle EXCEPT !.op = "validate", !.raised = r.exc # "none",
                                      !.ok = r.ok, !.msg = r.msg, !.tok = r.reqTok,
                                      !.reqs = r.reqs, !.created = r.created,
                                      !.script = script, !.auto = auto,
                                      !.creates = IF r.created /\ o.ok THEN 1 ELSE 0]
    /\ UNCHANGED <<backend, config, cliAvail, cliTok, files, envTok, tree, probe, race>>

\* The run's second step, taken when the first returned success:
\* platform.prepare_deployment(...), which validates again.
PrepareInDir ==
    /\ plat.built
    /\ last.op = "validate" /\ last.ok
    /\ \E script \in SteadyScripts(backend), hasLogger \in Loggers(backend),
          prompt \in Prompts, answer \in CreateAnswers(backend), marks \in BOOLEAN,
          auto \in AutoOutcomes(backend), build \in BuildStates :
          LET o == AutoCreateResource(backend, proj, HasClient, ViaCli,
                                      CandidateName(0), prompt, answer, marks)
              v == ValidateCredentials(backend, plat, ResolveNow, script, auto,
                                       hasLogger)
              r == PrepareDeployment(backend, v, build)
          IN  /\ auto = AutoOutcomeOf(backend, o, prompt)
              /\ plat' = r.p
              /\ proj' = IF v.created THEN o.pd ELSE proj
              /\ last' = [Idle EXCEPT !.op = "prepare", !.raised = r.raised,
                                      !.ok = r.ok, !.msg = r.msg,
                                      !.created = v.created, !.build = build,
                                      !.valid = v.ok, !.auto = auto,
                                      !.again = last.created,
                                      !.creates = last.creates
                                                  + IF v.created /\ o.ok THEN 1 ELSE 0]
    /\ UNCHANGED <<backend, config, cliAvail, cliTok, files, envTok, tree, probe, race>>

\* A run starts in a project directory in any state, with a token in the
\* environment variable and with or without the CLI tool.
InitRun ==
    /\ backend \in Backends
    /\ config \in Configs(backend)
    /\ config.method = "branch" /\ config.res = NoId /\ config.envId = NoId
    /\ cliAvail \in BOOLEAN
    /\ cliTok = NoneVal
    /\ files = [n \in FileNames(backend) |-> NoneVal]
    /\ envTok = <<"e">>
    /\ plat = Unbuilt
    /\ last = Idle
    /\ proj \in ProjectDirs(backend)
    /\ tree = NoTree
    /\ probe = NoProbe
    /\ race = NoRace

NextRun ==
    \/ Construct
    \/ ValidateInDir
    \/ PrepareInDir

SpecRun == InitRun /\ [][NextRun]_vars

-----------------------------------------------------------------------------
(* Claims about credential resolution *)

\* What each source yields when read the way the backend reads it.
CliYield == IF cliAvail THEN CliGetToken(backend, cliTok) ELSE NoneVal

FileYield == FileGetToken(backend, files)

\* C1: for every backend, _get_token returns the value of the first source,
\* in the order CLI tool, token file, environment variable, that yields a
\* non-empty value, and nothing (None or the empty string) when none does.
C1_FirstSourceWins ==
    last.op = "get_token" =>
        /\ Truthy(CliYield) => last.tok = CliYield
        /\ ~Truthy(CliYield) /\ Truthy(FileYield) => last.tok = FileYield
        /\ ~Truthy(CliYield) /\ ~Truthy(FileYield) /\ Truthy(envTok) =>
              last.tok = envTok
        /\ ~Truthy(CliYield) /\ ~Truthy(FileYield) /\ ~Truthy(envTok) =>
              ~Truthy(last.tok)

\* All three sources hold a value and _get_token has returned the CLI's.
C1_Witness ==
    /\ last.op = "get_token"
    /\ Truthy(CliYield) /\ Truthy(FileYield) /\ Truthy(envTok)
    /\ last.tok = CliYield

\* C2: GitHub, CLI tool not authenticated, GITHUB_TOKEN set and no other
\* token file: with a token stored in .deployx_github_token _get_token
\* returns that token, and with the file removed it returns GITHUB_TOKEN.
C2_AuthSetupFileIsRead ==
    ( /\ backend = "github"
      /\ last.op = "get_token"
      /\ ~cliAvail
      /\ files[TokenFileRead("github")] = NoneVal
      /\ Truthy(envTok) ) =>
        IF files[".deployx_github_token"] = NoneVal
        THEN last.tok = envTok
        ELSE Truthy(Strip(files[".deployx_github_token"])) =>
                last.tok = Strip(files[".deployx_github_token"])

\* No credential source yields a value.
NoSourceYields ==
    /\ cliAvail => ~Truthy(cliTok)
    /\ \A n \in FileNames(backend) : files[n] = NoneVal \/ Strip(files[n]) = <<>>
    /\ ~Truthy(envTok)

\* C3: the remote validation made by validate_credentials carries the
\* credential as the sources yield it at the time of the call.
C3_ValidatesFreshCredential ==
    (last.op = "validate" /\ last.reqs > 0) => last.tok = ResolveNow

\* C4: with no credential source yielding a value, construction raises
\* nothing, and validate_credentials raises nothing, returns failure with a
\* message saying that no token was provided, sends no remote request and
\* creates nothing.
C4_NoTokenIsAValue ==
    NoSourceYields =>
        /\ last.op = "construct" => ~last.raised /\ plat.built
        /\ last.op = "validate" =>
              /\ ~last.raised
              /\ ~last.ok
              /\ MsgContains(last.msg, "No token provided")
              /\ last.reqs = 0
              /\ ~last.created

\* validate_credentials has returned in an environment without credential.
C4_Witness ==
    /\ NoSourceYields
    /\ last.op = "validate"
    /\ ~last.ok
    /\ last.attempts = 1

-----------------------------------------------------------------------------
(* Claims about retrying *)

\* C6: with a configured resource, a validate_credentials call that meets
\* two transient failures and then an accepting answer succeeds after exactly
\* three attempts, and one that meets three transient failures fails with a
\* message saying that the retries were exhausted.
C6_TransientIsRetried ==
    (last.op = "validate" /\ config.res # NoId /\ last.reqs > 0) =>
        /\ (last.script.nFail = 2 /\ last.script.final = "ok") =>
              last.ok /\ last.attempts = MaxRetries
        /\ last.script.nFail = MaxRetries =>
              ~last.ok /\ MsgContains(last.msg, "Retries exhausted: ")

\* C7: a validate_credentials call whose credential the remote rejects makes
\* exactly one attempt and one request, and returns failure.
C7_RejectionIsFinal ==
    ( /\ last.op = "validate"
      /\ last.reqs > 0
      /\ RemoteAnswer(last.script, 1) = "401" ) =>
        /\ ~last.raised
        /\ ~last.ok
        /\ last.attempts = 1
        /\ last.reqs = 1

\* The remote has rejected the credential of a validate_credentials call.
C7_Witness ==
    /\ last.op = "validate"
    /\ last.reqs = 1
    /\ RemoteAnswer(last.script, 1) = "401"
    /\ ~last.ok

-----------------------------------------------------------------------------
(* Claims about the results of the platform operations *)

\* C5: none of validate_credentials, prepare_deployment, execute_deployment,
\* get_status and get_url lets an exception reach its caller, whatever the
\* remote, the processes and the file system do.
C5_NoExceptionEscapes ==
    last.op \in {"validate", "prepare", "execute", "status", "url"} => ~last.raised

\* C8: the DeploymentResult of execute_deployment has a non-empty message,
\* and no url when success is false.
C8_ResultIsWellFormed ==
    last.op = "execute" =>
        /\ ~MsgEmpty(last.msg)
        /\ ~last.ok => last.url = NoUrl

CanonicalStatuses == {"unknown", "not_deployed", "building", "ready", "error"}

\* C9: the DeploymentStatus of get_status carries one of the five canonical
\* status values.
C9_StatusIsCanonical ==
    last.op = "status" => last.status \in CanonicalStatuses

\* The raw statuses Netlify's status_map has a key for.
NetlifyKnownRaw == {"ready", "building", "error", "no_deploys"}

\* C10: when Netlify reports a raw status its lookup table does not hold,
\* get_status returns status unknown and a message containing the raw text.
C10_UnrecognisedRawIsUnknown ==
    ( /\ last.op = "status"
      /\ backend = "netlify"
      /\ last.raw # NoRaw
      /\ last.raw \notin NetlifyKnownRaw ) =>
        /\ last.status = "unknown"
        /\ MsgContains(last.msg, last.raw)

-----------------------------------------------------------------------------
(* Claims about branch deployment and cleanup *)

\* C11: when deploy_to_branch is called twice in a row on unchanged build
\* output, the second call returns success with the message "No changes to
\* deploy" and the URL of the first call, and makes no commit.
C11_SecondDeployIsNoOp ==
    (last.op = "branch" /\ last.again) =>
        /\ last.ok
        /\ MsgContains(last.msg, "No changes to deploy")
        /\ last.url = last.prevUrl
        /\ ~last.newCommit

\* C12: when execute_deployment of the Netlify backend returns or raises,
\* no temporary bundle file is left on disk.
C12_BundleIsRemoved ==
    (last.op = "execute" /\ backend = "netlify") => ~last.bundle

\* C13: when auth setup has written the token file and the token is then
\* not validated, because the test fails or because the user interrupts it,
\* the token file does not exist when the command returns.
C13_UnvalidatedTokenIsRemoved ==
    (last.op = "auth_setup" /\ last.test \in {"invalid", "interrupt"}) =>
        files[TokenFileAuth(backend)] = NoneVal

\* What the entries the specification protects are: the version-control
\* metadata, the build output directory with its files, the ignore file and
\* the custom-domain file.
ProtectedEntries(fs, out) ==
    {f \in fs : PathOf(f)[1] \in {".git", ".gitignore", "CNAME"} \/ IsUnder(out, PathOf(f))}

\* C19: for every output directory, the clearing step of deploy_to_branch
\* leaves exactly the protected entries, so that the copy step finds the
\* complete build output.
C19_ClearKeepsProtected ==
    (last.op = "branch" /\ last.build = "present") =>
        /\ last.cleared = ProtectedEntries(last.before \cup {GitMeta}, tree.out)
        /\ OutputFiles(last.cleared, tree.out) = OutputFiles(last.before, tree.out)

\* C20: prepare_deployment returns failure whenever the build output
\* directory does not exist, and with valid credentials the message says
\* that the directory was not found.
C20_MissingOutputFailsPrepare ==
    (last.op = "prepare" /\ last.build = "missing") =>
        /\ ~last.ok
        /\ last.valid => MsgContains(last.msg, "Build output directory not found: ")

-----------------------------------------------------------------------------
(* Claims about auto-creation *)

HasOrigin(pd) == \E r \in pd.remotes : r.name = <<"origin">>

\* The origin remote's URL has the host github.com.
OriginPointsAtGithub(pd) ==
    \E r \in pd.remotes : r.name = <<"origin">> /\ r.host = <<"github.com">>

\* C14: should_create_repository answers (true, no git repository) outside
\* a repository, (true, no remote origin) in a repository without remote,
\* true when origin does not point at github.com, and false when it does.
C14_RepositoryDecision ==
    (last.op = "should_create" /\ backend = "github") =>
        /\ ~proj.isRepo =>
              last.ok /\ MsgContains(last.msg, "No git repository detected")
        /\ (proj.isRepo /\ proj.remotes = {}) =>
              last.ok /\ MsgContains(last.msg, "no remote origin")
        /\ (proj.isRepo /\ HasOrigin(proj)) =>
              (last.ok <=> ~OriginPointsAtGithub(proj))

\* C15: for Netlify, Vercel and Railway should_create answers true, with a
\* reason saying that nothing was detected, exactly when neither the
\* link-marker directory nor the config file exists, and false with a reason
\* saying "already configured" whenever the link-marker directory exists.
C15_MarkerDecision ==
    (last.op = "should_create" /\ backend # "github") =>
        /\ last.ok <=> (~proj.markerDir /\ ~proj.configFile)
        /\ last.ok => MsgContains(last.msg, "No ") /\ MsgContains(last.msg, " detected")
        /\ proj.markerDir =>
              ~last.ok /\ MsgContains(last.msg, " already configured")

\* should_create has answered in a directory holding both the link-marker
\* directory and the config file.
C15_Witness ==
    /\ last.op = "should_create"
    /\ backend # "github"
    /\ proj.markerDir /\ proj.configFile
    /\ ~last.ok

\* C16: _generate_suggested_name has returned once it has made MaxProbes
\* lookups, also when every candidate name exists.
C16_ProbingIsBounded ==
    probe.lookups >= MaxProbes => probe.state = "returned"

\* C17: when the name prompt is cancelled, auto-creation returns failure
\* with a message saying so, has sent no create request and has changed
\* nothing in the project directory.
C17_CancelCreatesNothing ==
    (last.op = "auto_create" /\ last.prompt = "cancel") =>
        /\ ~last.ok
        /\ MsgContains(last.msg, " creation cancelled")
        /\ last.creates = 0
        /\ ~last.changed

\* The prompt of a repository creation has been cancelled after the name
\* lookups, and the prompt of a site or project creation.
C17_Witness ==
    /\ last.op = "auto_create"
    /\ last.prompt = "cancel"
    /\ ~last.ok
    /\ backend \in {"github", "netlify"}
    /\ HasClient

\* The identifier of the created resource: the name it was created under
\* for Vercel, whose platform object keeps project_name, and the returned
\* identifier for the others.
CreatedIdentifier(b, a) == IF b = "vercel" THEN a.name ELSE a.id

\* C18: after a validate_credentials call in which auto-creation succeeded,
\* the platform object holds an identifier, and it is that of the resource
\* created.
C18_HoldsCreatedIdentifier ==
    ( /\ last.op = "validate"
      /\ last.created
      /\ last.auto \in {"made", "made_renamed", "made_noid", "made_noenv"} ) =>
        /\ plat.res # NoId
        /\ plat.res = CreatedIdentifier(backend, AutoCreate(backend, last.auto))

-----------------------------------------------------------------------------
(* Claims about the deployment strategies *)

\* C21: when execute_deployment has run the CLI tool's deploy command, the
\* result is a success exactly when the process exited with code 0, and on
\* another exit code it is a failure without URL whose message contains the
\* captured error output.
C21_ExitCodeDecides ==
    (last.op = "execute" /\ last.proc.ran) =>
        /\ last.ok <=> last.proc.returncode = 0
        /\ last.proc.returncode # 0 =>
              /\ ~last.ok
              /\ last.url = NoUrl
              /\ MsgContains(last.msg, last.proc.stderr)

\* The deploy command of the Vercel tool has exited with a non-zero code
\* and an error text.
C21_Witness ==
    /\ last.op = "execute"
    /\ backend = "vercel"
    /\ last.proc.ran
    /\ last.proc.returncode # 0
    /\ last.proc.stderr # ""
    /\ ~last.ok

\* The conditions under which execute_deployment takes the CLI tool, and
\* under which the API client can deploy.
CliReady == plat.useCli /\ cliAvail

ApiReady ==
    /\ plat.clientTok # NoneVal
    /\ backend = "netlify" => plat.res # NoId
    /\ backend = "railway" => plat.svc # NoId /\ plat.envId # NoId

\* C30: each execute_deployment of the Netlify, Vercel and Railway backends
\* goes through one strategy: the CLI tool (after the link, where the
\* backend links) when use_cli is set and the tool is available, otherwise
\* the API when a client and the identifiers exist, otherwise none and a
\* failure; a failed link or CLI deployment is a failure and no API attempt
\* follows it.
C30_OneStrategy ==
    (last.op = "execute" /\ backend # "github") =>
        /\ CliReady =>
              /\ last.tried \in {<<"cli">>, <<"link", "cli">>, <<"link">>}
              /\ last.tried = <<"link">> => ~last.ok
              /\ (last.proc.ran /\ last.proc.returncode # 0) => ~last.ok
        /\ (~CliReady /\ ApiReady) => last.tried = <<"api">>
        /\ (~CliReady /\ ~ApiReady) => last.tried = <<>> /\ ~last.ok

\* The link of the Netlify site has failed in a call that could have
\* deployed through the API.
C30_Witness ==
    /\ last.op = "execute"
    /\ backend = "netlify"
    /\ CliReady /\ ApiReady
    /\ last.tried = <<"link">>
    /\ ~last.ok

\* C29: an execute_deployment that directly follows a successful
\* prepare_deployment, in an unchanged environment, does not fail for want
\* of a strategy: not with "No deployment method available" and not with
\* "incomplete setup".
C29_PreparedRunHasStrategy ==
    (last.op = "execute" /\ last.prepared) =>
        /\ ~MsgContains(last.msg, "No deployment method available")
        /\ ~MsgContains(last.msg, "incomplete setup")
        /\ backend # "github" => last.tried # <<>>

-----------------------------------------------------------------------------
(* Claims about the git deployments *)

\* C24: a docs-folder deployment pushes at most once and never with force,
\* and when the commit or the push fails, a push rejected by a diverged
\* remote included, it returns a failure without URL.
C24_DocsPushFailureIsTerminal ==
    (last.op = "execute" /\ backend = "github" /\ plat.method = "docs") =>
        /\ ~In("push_force", last.tried)
        /\ Len(last.tried) <= 1
        /\ (last.build = "present"
              /\ last.git \in {"nothing", "git_error", "push_failed", "rejected"}) =>
              ~last.ok /\ last.url = NoUrl

\* C22: with build output present, the repository user/repo and the branch
\* method, an execute_deployment whose git commands do not fail returns
\* success and the URL https://user.github.io/repo, and get_url returns
\* that URL for the same repository.
C22_PagesUrlOfRepository ==
    (backend = "github" /\ plat.built /\ RepoName(plat.res) = <<"user", "/", "repo">>) =>
        /\ ( /\ last.op = "execute"
              /\ plat.method = "branch"
              /\ last.build = "present"
              /\ last.git \in {"pushed", "nothing", "rejected"} ) =>
              last.ok /\ last.url = "https://user.github.io/repo"
        /\ last.op = "url" => last.url = "https://user.github.io/repo"

\* A branch deployment of user/repo has pushed and returned.
C22_Witness ==
    /\ last.op = "execute"
    /\ backend = "github"
    /\ plat.method = "branch"
    /\ RepoName(plat.res) = <<"user", "/", "repo">>
    /\ last.build = "present"
    /\ last.git = "pushed"
    /\ last.ok

-----------------------------------------------------------------------------
(* Claims about the setup command *)

\* C23: when the user interrupts a prompt of auth_setup_command, whichever
\* it is, the command returns False and raises nothing.
C23_InterruptedSetupReturnsFalse ==
    (last.op = "auth_setup" /\ last.prompt \in {"reconfigure", "page", "token"}) =>
        ~last.raised /\ ~last.ok


\* The build output as deploy_to_branch copies it to the root of the branch.
C26_CurrentOutput ==
    Snapshot({File(Below(tree.out, f), f[2]) : f \in OutputFiles(tree.files, tree.out)})

\* C26: whenever deploy_to_branch returns success, the tree of the remote
\* deployment branch contains the current build output, also when an
\* earlier call committed locally and its push failed.
C26_SuccessMeansPublished ==
    (last.op = "branch" /\ last.ok) => C26_CurrentOutput \subseteq tree.remote


\* The remote accepted the credential in the call just observed: a request
\* carrying it was sent and the answer that ended the call was an
\* authenticated one.
C28_CredentialAccepted ==
    /\ last.reqs >= 1
    /\ last.tok # NoneVal
    /\ RemoteAnswer(last.script, last.attempts) \in {"ok", "ok_readonly"}

\* C28: in every backend, validate_credentials sends a create request only
\* after the remote has accepted the resolved credential in that same call.
C28_CreatesOnlyAfterAcceptance ==
    (last.op = "validate" /\ last.created) => C28_CredentialAccepted


\* C27: within one run, validate_credentials followed by prepare_deployment,
\* at most one remote resource is created, also when the first creation
\* returned no identifier or left no marker in the project directory.
C27_OneResourcePerRun ==
    last.op \in {"validate", "prepare"} => last.creates <= 1


\* Both concurrent deployments have returned.
C25_BothReturned == \A d \in Deployers : race.copy[d].pc = "done"

\* C25: when two branch deployments of different build outputs have run
\* concurrently against one remote branch, both have returned success,
\* neither push was rejected, and the remote branch is at the commit of the
\* push the remote handled last.
C25_LastForcePushWins ==
    (race # NoRace /\ C25_BothReturned) =>
        /\ \A d \in Deployers : race.copy[d].ret.ok
        /\ \A d \in Deployers : race.copy[d].git # "rejected"
        /\ race.order # <<>> =>
              race.ref = race.copy[race.order[Len(race.order)]].head

====
